---- MODULE Spec2Model ----
(***************************************************************************)
(* SpeakEasy Tasks: the reminder scheduler (lib/reminders.ts over          *)
(* lib/storage.ts and lib/supabase.ts), the task prioritization service    *)
(* (lib/prioritization.ts) and the voice pipeline (lib/openai.ts,          *)
(* app/api/parse/route.ts, components/VoiceInput.tsx).                     *)
(*                                                                         *)
(* Three specifications share the module:                                  *)
(*   Spec      the reminder scheduler, its timers, sweep and storage       *)
(*   PrioSpec  prioritizeTasks followed by getTaskSchedulingSuggestions    *)
(*   VoiceSpec parse of an utterance and creation of the task or event     *)
(* Each leaves the variables of the other two at their initial values.     *)
(***************************************************************************)
EXTENDS Integers, Sequences, FiniteSets, TLC

(***************************************************************************)
(* Bounds of the reminder model.  Time is an abstract tick.                *)
(***************************************************************************)
MaxReminders == 1
MaxTimers == 2
MaxTime == 2
MaxIntervals == 1
MaxMarkFailures == 1
MaxRestarts == 1

RemIds == 1..MaxReminders
Handles == 1..MaxTimers
SweepIds == 1..MaxIntervals
Times == 0..MaxTime

TaskIds == {"t1"}
EventIds == {"e1"}
NoId == "none"

VARIABLES
  \* ---- reminder scheduler -------------------------------------------
  useSupabase,      \* StorageService.useSupabase, fixed at module load
  now,              \* the wall clock
  tasks,            \* task ids in the store StorageService reads
  events,           \* event ids in the store StorageService reads
  reminder,         \* the Reminder objects created so far, by reminderId
  dbReminders,      \* reminderIds that have a row in the reminders table
  dbTriggered,      \* rows whose isTriggered column is true
  toSchedule,       \* createReminder calls waiting on addReminder
  activeReminders,  \* ContextualReminderService.activeReminders: id -> handle (0: no entry)
  timers,           \* live setTimeout handles
  timerRem,         \* the reminder each allocated handle's closure captured (0: unallocated)
  calls,            \* running triggerReminder invocations, by caller
  intervals,        \* number of live setInterval sweeps
  sweep,            \* each interval's checkReminders invocation
  initPc,           \* initialize(): "idle" or "resume" (waiting on getReminders)
  initSnap,         \* the list initialize() read
  pendingDeletes,   \* deleteReminder requests not yet applied by the database
  markFailures,     \* database errors injected into triggerReminder's update so far
  log,              \* notifications dispatched, per reminder, in order
  attempts,         \* history: who has called triggerReminder for each reminder
  cancelled,        \* history: reminders cancelReminder was called for
  deletedOwners,    \* history: tasks and events deleted through the delete flow
  restarts,         \* history: how many times the page was loaded again
  \* ---- prioritization ------------------------------------------------
  pnow,             \* context.currentTime, in hours
  ptasks,           \* the Task[] handed to prioritizeTasks
  prioritized,      \* its result
  suggestion,       \* the result of getTaskSchedulingSuggestions
  ppc,              \* "input", "prioritized" or "suggested"
  \* ---- voice pipeline -------------------------------------------------
  vnow,             \* the wall clock of the voice pipeline, in minutes
  utterance,        \* the transcribed text, a sequence of characters
  extracted,        \* <<the AI extractor's answer>>, or <<>> before the call
  parsed,           \* <<the ParsedVoiceInput parseVoiceInput returned>>, or <<>>
  response,         \* <<the HTTP response of POST /api/parse>>, or <<>>
  created,          \* <<the Task or CalendarEvent created>>, or <<>>
  vpc,              \* "idle", "transcribed", "parsed", "responded", "done", "failed"
  \* ---- AI-assisted prioritization ------------------------------------
  anow,             \* the wall clock of the fallback prioritization, in hours
  atasks,           \* HomePage's tasks state, a Task[]
  aiAnswer,         \* <<the answer of the AI prioritization call>>, or <<>>
  aiResult,         \* <<the PrioritizationResult prioritizeTasks returned>>, or <<>>
  aiSaved,          \* the priorities written with StorageService.updateTask
  apc,              \* "input", "prioritized" or "applied"
  \* ---- reminder creation for a saved task or event --------------------
  plnow,            \* the wall clock at creation, in minutes
  plOwner,          \* <<the task or event the reminders are created for>>, or <<>>
  plFails,          \* the createReminder calls whose addReminder returned null
  planned,          \* the reminders createReminder returned, in order
  plpc,             \* "idle", "task" or "event"
  \* ---- Settings and the localStorage ReminderService ----------------
  snow,               \* the wall clock
  speakeasyReminders, \* the array under localStorage key speakeasy_reminders
  svcActive,          \* ReminderService.activeReminders: id -> handle (0: no entry)
  timeouts,           \* live setTimeout handles of ReminderService
  handles,            \* number of handles setTimeout has returned
  shown,              \* notifications shown, by reminder id
  lateShown,          \* history: shown after a clear that followed the scheduling
  setpc               \* the Settings handler that ran last

remVars == <<useSupabase, now, tasks, events, reminder, dbReminders, dbTriggered,
             toSchedule, activeReminders, timers, timerRem, calls, intervals,
             sweep, initPc, initSnap, pendingDeletes, markFailures, log,
             attempts, cancelled, deletedOwners, restarts>>
prioVars == <<pnow, ptasks, prioritized, suggestion, ppc>>
voiceVars == <<vnow, utterance, extracted, parsed, response, created, vpc>>
aiVars == <<anow, atasks, aiAnswer, aiResult, aiSaved, apc>>
planVars == <<plnow, plOwner, plFails, planned, plpc>>
setVars == <<snow, speakeasyReminders, svcActive, timeouts, handles, shown,
             lateShown, setpc>>
vars == <<remVars, prioVars, voiceVars, aiVars, planVars, setVars>>

\* No recording has been handled
VoiceIdle ==
  /\ vnow = 0
  /\ utterance = <<>>
  /\ extracted = <<>>
  /\ parsed = <<>>
  /\ response = <<>>
  /\ created = <<>>
  /\ vpc = "idle"

\* No AI prioritization has been asked for
AiIdle ==
  /\ anow = 0
  /\ atasks = <<>>
  /\ aiAnswer = <<>>
  /\ aiResult = <<>>
  /\ aiSaved = <<>>
  /\ apc = "input"

\* Nothing is stored under speakeasy_reminders and ReminderService has
\* scheduled nothing
SvcIds == {"s1", "s2"}
SettingsIdle ==
  /\ snow = 0
  /\ speakeasyReminders = <<>>
  /\ svcActive = [r \in SvcIds |-> 0]
  /\ timeouts = {}
  /\ handles = 0
  /\ shown = [r \in SvcIds |-> 0]
  /\ lateShown = {}
  /\ setpc = "idle"

\* No reminders have been created for a task or event
PlanIdle ==
  /\ plnow = 0
  /\ plOwner = <<>>
  /\ plFails = {}
  /\ planned = <<>>
  /\ plpc = "idle"

(***************************************************************************)
(* Reminder scheduler: lib/reminders.ts, lib/storage.ts, lib/supabase.ts   *)
(***************************************************************************)

NoReminder ==
  [reminderId |-> 0, taskId |-> NoId, eventId |-> NoId,
   triggerType |-> "none", triggerValue |-> 0]

\* generateId(): a fresh id for every reminder
NextReminderId == 1 + Cardinality({r \in RemIds : reminder[r] # NoReminder})

\* setTimeout returns a fresh handle
NextHandle == 1 + Cardinality({h \in Handles : timerRem[h] # 0})

\* A triggerReminder invocation; orphan is history: the reminder's owner had
\* been deleted when the call began
IdleCall ==
  [pc |-> "idle", rid |-> 0, title |-> "", orphan |-> FALSE, markOk |-> TRUE]
IdleSweep == [pc |-> "idle", snap |-> <<>>, idx |-> 0, now |-> 0]

Callers == ({"timer"} \X Handles) \cup ({"sweep"} \X SweepIds)

\* The reminders owned by a task or event
OwnedBy(o) == {r \in RemIds : reminder[r] # NoReminder
                              /\ (reminder[r].taskId = o \/ reminder[r].eventId = o)}

\* The user has deleted the task or event the reminder belongs to
Orphaned(rem) == rem.taskId \in deletedOwners \/ rem.eventId \in deletedOwners

\* Ids in descending order: .order('createdAt', { ascending: false })
RECURSIVE DescSeq(_)
DescSeq(S) ==
  IF S = {} THEN <<>>
  ELSE LET m == CHOOSE x \in S : \A y \in S : y <= x
       IN <<m>> \o DescSeq(S \ {m})

\* StorageService.getReminders: the untriggered rows of the user, newest
\* first, under Supabase; the empty list under localStorage.
getReminders ==
  IF useSupabase
  THEN LET ids == DescSeq({r \in dbReminders : r \notin dbTriggered})
       IN [i \in 1..Len(ids) |-> [reminderId |-> ids[i], isTriggered |-> FALSE]]
  ELSE <<>>

\* scheduleReminder as a function of the timer state ts =
\* [timerRem, timers, activeReminders]: a time reminder whose delay is
\* positive gets a new timeout whose handle overwrites the entry of its id.
scheduleReminder(ts, rem) ==
  LET h == 1 + Cardinality({x \in Handles : ts.timerRem[x] # 0})
  IN IF rem.triggerType = "time" /\ rem.triggerValue - now > 0
     THEN [timerRem |-> [ts.timerRem EXCEPT ![h] = rem.reminderId],
           timers |-> ts.timers \cup {h},
           activeReminders |-> [ts.activeReminders EXCEPT ![rem.reminderId] = h]]
     ELSE ts

TimerState == [timerRem |-> timerRem, timers |-> timers,
               activeReminders |-> activeReminders]

\* The number of timeouts scheduleReminder would create for a list
NeedsTimer(rem) == rem.triggerType = "time" /\ rem.triggerValue - now > 0

\* loadAndScheduleReminders' forEach over the list it read
RECURSIVE ScheduleAll(_, _, _)
ScheduleAll(ts, snap, i) ==
  IF i > Len(snap) THEN ts
  ELSE ScheduleAll(IF ~snap[i].isTriggered
                   THEN scheduleReminder(ts, reminder[snap[i].reminderId])
                   ELSE ts,
                   snap, i + 1)

SetTimerState(ts) ==
  /\ timerRem' = ts.timerRem
  /\ timers' = ts.timers
  /\ activeReminders' = ts.activeReminders

\* triggerReminder's lookup of the owner for the notification text
LookupTitle(rem) ==
  IF rem.taskId # NoId
  THEN (IF rem.taskId \in tasks THEN "Task Reminder" ELSE "Reminder")
  ELSE IF rem.eventId # NoId
       THEN (IF rem.eventId \in events THEN "Event Reminder" ELSE "Reminder")
       ELSE "Reminder"

\* showNotification: one dispatch, by the Notification API or the
\* 'speakeasy-reminder' CustomEvent
showNotification(rid, by, title) ==
  log' = [log EXCEPT ![rid] = Append(@, [by |-> by, title |-> title])]

\* checkReminders' loop condition for one element of the list it read
SweepDue(r, t) ==
  /\ ~r.isTriggered
  /\ reminder[r.reminderId].triggerType = "time"
  /\ reminder[r.reminderId].triggerValue <= t

\* The loop runs synchronously up to the next element it fires
RECURSIVE NextDueIdx(_, _, _)
NextDueIdx(snap, i, t) ==
  IF i > Len(snap) THEN i
  ELSE IF SweepDue(snap[i], t) THEN i
       ELSE NextDueIdx(snap, i + 1, t)

\* The store holds the task and the event the voice flow has saved; no
\* reminder has been created and initialize() has not run.
RemInit ==
  /\ useSupabase \in BOOLEAN
  /\ now = 0
  /\ tasks = TaskIds
  /\ events = EventIds
  /\ reminder = [r \in RemIds |-> NoReminder]
  /\ dbReminders = {}
  /\ dbTriggered = {}
  /\ toSchedule = {}
  /\ activeReminders = [r \in RemIds |-> 0]
  /\ timers = {}
  /\ timerRem = [h \in Handles |-> 0]
  /\ calls = [c \in Callers |-> IdleCall]
  /\ intervals = 0
  /\ sweep = [i \in SweepIds |-> IdleSweep]
  /\ initPc = "idle"
  /\ initSnap = <<>>
  /\ pendingDeletes = {}
  /\ markFailures = 0
  /\ log = [r \in RemIds |-> <<>>]
  /\ attempts = [r \in RemIds |-> {}]
  /\ cancelled = {}
  /\ deletedOwners = {}
  /\ restarts = 0
  /\ SettingsIdle

\* The clock advances
Tick ==
  /\ now < MaxTime
  /\ now' = now + 1
  /\ UNCHANGED <<setVars, prioVars, voiceVars, aiVars, planVars, restarts, useSupabase, tasks, events, reminder, dbReminders, dbTriggered,
                 toSchedule, activeReminders, timers, timerRem, calls, intervals,
                 sweep, initPc, initSnap, pendingDeletes, markFailures, log,
                 attempts, cancelled, deletedOwners>>

\* The owner createTaskReminders / createEventReminders is called for is
\* the task or event the voice flow has just saved.
Saved(o) == o \in tasks \cup events /\ o \notin deletedOwners

\* createReminder up to the end of StorageService.addReminder.  Under
\* localStorage addReminder returns the reminder without storing it and
\* scheduleReminder follows in the same turn; under Supabase the row is
\* inserted and scheduleReminder waits for the response.
createReminder(o, ty, at) ==
  LET rid == NextReminderId
      rem == [reminderId |-> rid,
              taskId |-> IF o \in TaskIds THEN o ELSE NoId,
              eventId |-> IF o \in EventIds THEN o ELSE NoId,
              triggerType |-> ty,
              triggerValue |-> at]
  IN /\ rid <= MaxReminders
     /\ Saved(o)
     /\ reminder' = [reminder EXCEPT ![rid] = rem]
     /\ IF useSupabase
        THEN /\ dbReminders' = dbReminders \cup {rid}
             /\ toSchedule' = toSchedule \cup {rid}
             /\ UNCHANGED <<timerRem, timers, activeReminders>>
        ELSE /\ NeedsTimer(rem) => NextHandle <= MaxTimers
             /\ SetTimerState(scheduleReminder(TimerState, rem))
             /\ UNCHANGED <<dbReminders, toSchedule>>
     /\ UNCHANGED <<setVars, prioVars, voiceVars, aiVars, planVars, restarts, useSupabase, now, tasks, events, dbTriggered, calls, intervals,
                    sweep, initPc, initSnap, pendingDeletes, markFailures, log,
                    attempts, cancelled, deletedOwners>>

\* createTaskReminders and createEventReminders call createReminder for a
\* time trigger only when the trigger instant is after now
createTimeReminder(o, at) ==
  /\ at > now
  /\ createReminder(o, "time", at)

\* createReminder after addReminder returned the saved row
createReminderResume(rid) ==
  /\ rid \in toSchedule
  /\ NeedsTimer(reminder[rid]) => NextHandle <= MaxTimers
  /\ toSchedule' = toSchedule \ {rid}
  /\ SetTimerState(scheduleReminder(TimerState, reminder[rid]))
  /\ UNCHANGED <<setVars, prioVars, voiceVars, aiVars, planVars, restarts, useSupabase, now, tasks, events, reminder, dbReminders,
                 dbTriggered, calls, intervals, sweep, initPc, initSnap,
                 pendingDeletes, markFailures, log, attempts, cancelled,
                 deletedOwners>>

\* The timeouts loadAndScheduleReminders would create for the list it read
TimersNeeded(snap) ==
  Cardinality({i \in 1..Len(snap) :
                 ~snap[i].isTriggered /\ NeedsTimer(reminder[snap[i].reminderId])})

\* initialize() up to the end of loadAndScheduleReminders' getReminders:
\* the permission request, then the read of the reminders.
initialize ==
  /\ initPc = "idle"
  /\ intervals < MaxIntervals
  /\ initPc' = "resume"
  /\ initSnap' = getReminders
  /\ UNCHANGED <<setVars, prioVars, voiceVars, aiVars, planVars, restarts, useSupabase, now, tasks, events, reminder, dbReminders,
                 dbTriggered, toSchedule, activeReminders, timers, timerRem,
                 calls, intervals, sweep, pendingDeletes, markFailures, log,
                 attempts, cancelled, deletedOwners>>

\* initialize() after the read: every untriggered reminder of the list is
\* scheduled, whether or not it already has a timer, and the 60 s sweep
\* is started.
initializeResume ==
  /\ initPc = "resume"
  /\ NextHandle + TimersNeeded(initSnap) - 1 <= MaxTimers
  /\ SetTimerState(ScheduleAll(TimerState, initSnap, 1))
  /\ intervals' = intervals + 1
  /\ initPc' = "idle"
  /\ initSnap' = <<>>
  /\ UNCHANGED <<setVars, prioVars, voiceVars, aiVars, planVars, restarts, useSupabase, now, tasks, events, reminder, dbReminders,
                 dbTriggered, toSchedule, calls, sweep, pendingDeletes,
                 markFailures, log, attempts, cancelled, deletedOwners>>

\* A timeout elapses and its callback calls triggerReminder with the
\* reminder object it captured.  Under localStorage every await of
\* triggerReminder resolves in the same turn of the event loop, so the
\* whole call is one step; under Supabase the call stops at the first
\* request.
TimerFire(h) ==
  LET rid == timerRem[h]
  IN /\ h \in timers
     /\ reminder[rid].triggerValue <= now
     /\ timers' = timers \ {h}
     /\ attempts' = [attempts EXCEPT ![rid] = @ \cup {"timer"}]
     /\ IF useSupabase
        THEN /\ calls' = [calls EXCEPT ![<<"timer", h>>] =
                            [pc |-> "mark", rid |-> rid, title |-> "",
                             orphan |-> Orphaned(reminder[rid]),
                             markOk |-> TRUE]]
             /\ UNCHANGED <<log, activeReminders>>
        ELSE /\ showNotification(rid, "timer", LookupTitle(reminder[rid]))
             /\ activeReminders' = [activeReminders EXCEPT ![rid] = 0]
             /\ UNCHANGED calls
     /\ UNCHANGED <<setVars, prioVars, voiceVars, aiVars, planVars, restarts, useSupabase, now, tasks, events, reminder, dbReminders,
                    dbTriggered, toSchedule, timerRem, intervals, sweep, initPc,
                    initSnap, pendingDeletes, markFailures, cancelled,
                    deletedOwners>>

\* triggerReminder, step 1: SupabaseReminders.triggerReminder updates the
\* row with that id, if there is one; its boolean result (markOk, kept
\* here for the record) is not looked at.
TrigMark(c) ==
  /\ calls[c].pc = "mark"
  /\ \/ /\ dbTriggered' = dbTriggered \cup ({calls[c].rid} \cap dbReminders)
        /\ calls' = [calls EXCEPT ![c].pc = "lookup", ![c].markOk = TRUE]
        /\ UNCHANGED markFailures
     \/ /\ markFailures < MaxMarkFailures
        /\ markFailures' = markFailures + 1
        /\ calls' = [calls EXCEPT ![c].pc = "lookup", ![c].markOk = FALSE]
        /\ UNCHANGED dbTriggered
  /\ UNCHANGED <<setVars, prioVars, voiceVars, aiVars, planVars, restarts, useSupabase, now, tasks, events, reminder, dbReminders,
                 toSchedule, activeReminders, timers, timerRem, intervals, sweep,
                 initPc, initSnap, pendingDeletes, log, attempts, cancelled,
                 deletedOwners>>

\* triggerReminder, step 2: getTasks or getEvents reads the owner
TrigLookup(c) ==
  /\ calls[c].pc = "lookup"
  /\ calls' = [calls EXCEPT ![c].pc = "dispatch",
                            ![c].title = LookupTitle(reminder[calls[c].rid])]
  /\ UNCHANGED <<setVars, prioVars, voiceVars, aiVars, planVars, restarts, useSupabase, now, tasks, events, reminder, dbReminders,
                 dbTriggered, toSchedule, activeReminders, timers, timerRem,
                 intervals, sweep, initPc, initSnap, pendingDeletes,
                 markFailures, log, attempts, cancelled, deletedOwners>>

\* triggerReminder, step 3: the notification is shown and the entry of
\* activeReminders deleted; a sweep then goes on with its loop up to the
\* next reminder it fires.
TrigDispatch(c) ==
  LET rid == calls[c].rid
      i == c[2]
      nxt == NextDueIdx(sweep[i].snap, sweep[i].idx + 1, sweep[i].now)
  IN /\ calls[c].pc = "dispatch"
     /\ showNotification(rid, c[1], calls[c].title)
     /\ activeReminders' = [activeReminders EXCEPT ![rid] = 0]
     /\ IF c[1] = "sweep"
        THEN IF nxt <= Len(sweep[i].snap)
             THEN /\ sweep' = [sweep EXCEPT ![i].idx = nxt]
                  /\ calls' = [calls EXCEPT ![c] =
                                 [pc |-> "mark",
                                  rid |-> sweep[i].snap[nxt].reminderId,
                                  title |-> "",
                                  orphan |-> Orphaned(reminder[sweep[i].snap[nxt].reminderId]),
                             markOk |-> TRUE]]
                  /\ attempts' = [attempts EXCEPT
                                    ![sweep[i].snap[nxt].reminderId] = @ \cup {"sweep"}]
             ELSE /\ sweep' = [sweep EXCEPT ![i] = IdleSweep]
                  /\ calls' = [calls EXCEPT ![c] = IdleCall]
                  /\ UNCHANGED attempts
        ELSE /\ calls' = [calls EXCEPT ![c] = IdleCall]
             /\ UNCHANGED <<sweep, attempts>>
     /\ UNCHANGED <<setVars, prioVars, voiceVars, aiVars, planVars, restarts, useSupabase, now, tasks, events, reminder, dbReminders,
                    dbTriggered, toSchedule, timers, timerRem, intervals, initPc,
                    initSnap, pendingDeletes, markFailures, cancelled,
                    deletedOwners>>

\* The 60 s interval elapses and checkReminders runs: it gets the list,
\* reads the clock once and loops up to the first reminder whose trigger
\* time has come.  An interval whose previous sweep is still running is
\* not taken.
checkReminders(i) ==
  LET snap == getReminders
      nxt == NextDueIdx(snap, 1, now)
  IN /\ i <= intervals
     /\ sweep[i].pc = "idle"
     /\ IF nxt <= Len(snap)
        THEN /\ sweep' = [sweep EXCEPT ![i] =
                            [pc |-> "await", snap |-> snap, idx |-> nxt, now |-> now]]
             /\ calls' = [calls EXCEPT ![<<"sweep", i>>] =
                            [pc |-> "mark", rid |-> snap[nxt].reminderId,
                             title |-> "",
                             orphan |-> Orphaned(reminder[snap[nxt].reminderId]),
                             markOk |-> TRUE]]
             /\ attempts' = [attempts EXCEPT
                               ![snap[nxt].reminderId] = @ \cup {"sweep"}]
        ELSE /\ sweep' = [sweep EXCEPT ![i] = IdleSweep]
             /\ UNCHANGED <<calls, attempts>>
     /\ UNCHANGED <<setVars, prioVars, voiceVars, aiVars, planVars, restarts, useSupabase, now, tasks, events, reminder, dbReminders,
                    dbTriggered, toSchedule, activeReminders, timers, timerRem,
                    intervals, initPc, initSnap, pendingDeletes, markFailures,
                    log, cancelled, deletedOwners>>

\* cancelReminder up to its await: the timeout of the id's entry is
\* cleared and the entry deleted, then deleteReminder is sent (under
\* localStorage it only returns true).
cancelReminder(rid) ==
  /\ reminder[rid] # NoReminder
  /\ timers' = timers \ {activeReminders[rid]}
  /\ activeReminders' = [activeReminders EXCEPT ![rid] = 0]
  /\ pendingDeletes' = IF useSupabase THEN pendingDeletes \cup {rid}
                       ELSE pendingDeletes
  /\ cancelled' = cancelled \cup {rid}
  /\ UNCHANGED <<setVars, prioVars, voiceVars, aiVars, planVars, restarts, useSupabase, now, tasks, events, reminder, dbReminders,
                 dbTriggered, toSchedule, timerRem, calls, intervals, sweep,
                 initPc, initSnap, markFailures, log, attempts, deletedOwners>>

\* SupabaseReminders.deleteReminder: the row is deleted
deleteReminder(rid) ==
  /\ rid \in pendingDeletes
  /\ pendingDeletes' = pendingDeletes \ {rid}
  /\ dbReminders' = dbReminders \ {rid}
  /\ dbTriggered' = dbTriggered \ {rid}
  /\ UNCHANGED <<setVars, prioVars, voiceVars, aiVars, planVars, restarts, useSupabase, now, tasks, events, reminder, toSchedule,
                 activeReminders, timers, timerRem, calls, intervals, sweep,
                 initPc, initSnap, markFailures, log, attempts, cancelled,
                 deletedOwners>>

\* TaskList.handleDelete: StorageService.deleteTask, and nothing else.
\* Under Supabase the reminders' foreign key deletes the task's rows
\* (ON DELETE CASCADE).
TaskListHandleDelete(t) ==
  /\ t \in tasks
  /\ tasks' = tasks \ {t}
  /\ dbReminders' = dbReminders \ OwnedBy(t)
  /\ dbTriggered' = dbTriggered \ OwnedBy(t)
  /\ deletedOwners' = deletedOwners \cup {t}
  /\ UNCHANGED <<setVars, prioVars, voiceVars, aiVars, planVars, restarts, useSupabase, now, events, reminder, toSchedule, activeReminders,
                 timers, timerRem, calls, intervals, sweep, initPc, initSnap,
                 pendingDeletes, markFailures, log, attempts, cancelled>>

\* CalendarView.handleDelete: LocalStorage.deleteEvent, and nothing else.
\* It removes the event from localStorage whatever store StorageService
\* uses, so under Supabase the event's row and its reminders stay.
CalendarViewHandleDelete(e) ==
  /\ e \in events
  /\ events' = IF useSupabase THEN events ELSE events \ {e}
  /\ deletedOwners' = deletedOwners \cup {e}
  /\ UNCHANGED <<setVars, prioVars, voiceVars, aiVars, planVars, restarts, useSupabase, now, tasks, reminder, dbReminders, dbTriggered,
                 toSchedule, activeReminders, timers, timerRem, calls, intervals,
                 sweep, initPc, initSnap, pendingDeletes, markFailures, log,
                 attempts, cancelled>>

Next ==
  \/ Tick
  \/ \E o \in TaskIds \cup EventIds, at \in Times : createTimeReminder(o, at)
  \/ \E rid \in RemIds : createReminderResume(rid)
  \/ initialize
  \/ initializeResume
  \/ \E h \in Handles : TimerFire(h)
  \/ \E c \in Callers : TrigMark(c)
  \/ \E c \in Callers : TrigLookup(c)
  \/ \E c \in Callers : TrigDispatch(c)
  \/ \E i \in SweepIds : checkReminders(i)
  \/ \E rid \in RemIds : cancelReminder(rid)
  \/ \E rid \in RemIds : deleteReminder(rid)
  \/ \E t \in TaskIds : TaskListHandleDelete(t)
  \/ \E e \in EventIds : CalendarViewHandleDelete(e)

(***************************************************************************)
(* Task prioritization: lib/prioritization.ts.  Time is in hours.          *)
(***************************************************************************)
MaxTasks == 6

NoDate == -1000000

\* The tasks the lists are built from, one for each way through the
\* scorer and the three bucket filters.  due and age are hours relative
\* to the reference time (NoDate: no due date); titleLength and the two
\* keyword flags are what estimateTaskDuration reads of the title.
Kind(p, c, due, age, len, long, short) ==
  [priority |-> p, isCompleted |-> c, due |-> due, age |-> age,
   titleLength |-> len, longKeyword |-> long, shortKeyword |-> short]

TaskKinds ==
  << Kind("high", FALSE, -1, 0, 20, FALSE, FALSE),        \* overdue
     Kind("low", FALSE, 0, 0, 20, FALSE, TRUE),           \* due at this instant
     Kind("medium", FALSE, 1, 0, 20, FALSE, FALSE),       \* due in under 2 h
     Kind("high", FALSE, 1, 200, 120, TRUE, FALSE),       \* the same, old and long
     Kind("low", FALSE, 10, 0, 20, FALSE, FALSE),         \* due in under 24 h
     Kind("high", FALSE, NoDate, 0, 60, TRUE, FALSE),     \* high, no due date
     Kind("high", FALSE, 200, 200, 20, FALSE, FALSE),     \* high, due far ahead, old
     Kind("medium", FALSE, 50, 0, 20, FALSE, FALSE),      \* due in under 72 h
     Kind("medium", FALSE, NoDate, 0, 20, FALSE, FALSE),  \* medium, no due date
     Kind("low", FALSE, 100, 0, 20, FALSE, FALSE),        \* due within the week
     Kind("low", FALSE, NoDate, 0, 20, FALSE, FALSE),     \* low, no due date
     Kind("high", TRUE, -1, 200, 20, FALSE, FALSE),       \* completed, overdue, old
     Kind("medium", TRUE, NoDate, 0, 20, FALSE, FALSE) >> \* completed

\* The Task of kind k with id n at reference time t
MakeTask(n, k, t) ==
  [taskId |-> n, kind |-> k,
   priority |-> TaskKinds[k].priority,
   isCompleted |-> TaskKinds[k].isCompleted,
   createdAt |-> t - TaskKinds[k].age,
   dueDate |-> IF TaskKinds[k].due = NoDate THEN NoDate ELSE t + TaskKinds[k].due,
   titleLength |-> TaskKinds[k].titleLength,
   longKeyword |-> TaskKinds[k].longKeyword,
   shortKeyword |-> TaskKinds[k].shortKeyword]

Max(a, b) == IF a >= b THEN a ELSE b

\* calculatePriorityScore without the overdue band: an overdue task gets the
\* bonus of a task due within 2 hours
calculatePriorityScore_NoOverdueBand(task, currentTime) ==
  LET base == CASE task.priority = "high" -> 100
                [] task.priority = "medium" -> 50
                [] task.priority = "low" -> 25
                [] OTHER -> 0
      hoursUntilDue == task.dueDate - currentTime
      band == IF task.dueDate = NoDate THEN 0
              ELSE IF hoursUntilDue < 2 THEN 150
              ELSE IF hoursUntilDue < 24 THEN 75
              ELSE IF hoursUntilDue < 72 THEN 25
              ELSE 0
      afterCompletion == IF task.isCompleted THEN 0 ELSE base + band
      boost == IF currentTime - task.createdAt > 7 * 24 THEN 10 ELSE 0
  IN Max(0, afterCompletion + boost)

\* calculatePriorityScore with the bands' upper boundaries included
calculatePriorityScore_InclusiveBands(task, currentTime) ==
  LET base == CASE task.priority = "high" -> 100
                [] task.priority = "medium" -> 50
                [] task.priority = "low" -> 25
                [] OTHER -> 0
      hoursUntilDue == task.dueDate - currentTime
      band == IF task.dueDate = NoDate THEN 0
              ELSE IF hoursUntilDue < 0 THEN 200
              ELSE IF hoursUntilDue <= 2 THEN 150
              ELSE IF hoursUntilDue <= 24 THEN 75
              ELSE IF hoursUntilDue <= 72 THEN 25
              ELSE 0
      afterCompletion == IF task.isCompleted THEN 0 ELSE base + band
      boost == IF currentTime - task.createdAt > 7 * 24 THEN 10 ELSE 0
  IN Max(0, afterCompletion + boost)

\* calculatePriorityScore: base by priority, one due-date band, the reset
\* of completed tasks, and after it the age boost
calculatePriorityScore(task, currentTime) ==
  LET base == CASE task.priority = "high" -> 100
                [] task.priority = "medium" -> 50
                [] task.priority = "low" -> 25
                [] OTHER -> 0
      hoursUntilDue == task.dueDate - currentTime
      band == IF task.dueDate = NoDate THEN 0
              ELSE IF hoursUntilDue < 0 THEN 200
              ELSE IF hoursUntilDue < 2 THEN 150
              ELSE IF hoursUntilDue < 24 THEN 75
              ELSE IF hoursUntilDue < 72 THEN 25
              ELSE 0
      afterCompletion == IF task.isCompleted THEN 0 ELSE base + band
      \* taskAge > 7 days
      boost == IF currentTime - task.createdAt > 7 * 24 THEN 10 ELSE 0
  IN Max(0, afterCompletion + boost)

\* determineUrgencyLevel without the 72 hour window
determineUrgencyLevel_NoThreeDayWindow(task, currentTime) ==
  LET hoursUntilDue == task.dueDate - currentTime
  IN IF task.isCompleted THEN "low"
     ELSE IF task.dueDate # NoDate /\ hoursUntilDue < 0 THEN "critical"
     ELSE IF task.dueDate # NoDate /\ hoursUntilDue < 2 THEN "critical"
     ELSE IF task.dueDate # NoDate /\ hoursUntilDue < 24 THEN "high"
     ELSE CASE task.priority = "high" -> "high"
            [] task.priority = "medium" -> "medium"
            [] task.priority = "low" -> "low"
            [] OTHER -> "medium"

\* determineUrgencyLevel
determineUrgencyLevel(task, currentTime) ==
  LET hoursUntilDue == task.dueDate - currentTime
  IN IF task.isCompleted THEN "low"
     ELSE IF task.dueDate # NoDate /\ hoursUntilDue < 0 THEN "critical"
     ELSE IF task.dueDate # NoDate /\ hoursUntilDue < 2 THEN "critical"
     ELSE IF task.dueDate # NoDate /\ hoursUntilDue < 24 THEN "high"
     ELSE IF task.dueDate # NoDate /\ hoursUntilDue < 72 THEN "medium"
     ELSE CASE task.priority = "high" -> "high"
            [] task.priority = "medium" -> "medium"
            [] task.priority = "low" -> "low"
            [] OTHER -> "medium"

\* estimateTaskDuration, in minutes
estimateTaskDuration(task) ==
  LET byLength == 30 + (IF task.titleLength > 50 THEN 15 ELSE 0)
                     + (IF task.titleLength > 100 THEN 15 ELSE 0)
      byPriority == CASE task.priority = "high" -> 30
                      [] task.priority = "medium" -> 15
                      [] OTHER -> 0
      byKeyword == (IF task.longKeyword THEN 45 ELSE 0)
                   - (IF task.shortKeyword THEN 15 ELSE 0)
  IN Max(15, byLength + byPriority + byKeyword)

\* The PrioritizedTask prioritizeTasks maps a task to
Prioritize(task, currentTime) ==
  [taskId |-> task.taskId, kind |-> task.kind,
   priority |-> task.priority, isCompleted |-> task.isCompleted,
   createdAt |-> task.createdAt, dueDate |-> task.dueDate,
   priorityScore |-> calculatePriorityScore(task, currentTime),
   urgencyLevel |-> determineUrgencyLevel(task, currentTime),
   timeToDeadline |-> IF task.dueDate # NoDate THEN task.dueDate - currentTime
                      ELSE NoDate,
   estimatedDuration |-> estimateTaskDuration(task)]

\* Array.prototype.sort with (a, b) => b.priorityScore - a.priorityScore:
\* descending by score, stable
\* InsertByScore in ascending order
RECURSIVE InsertByScore_Ascending(_, _)
InsertByScore_Ascending(sorted, x) ==
  IF sorted = <<>> THEN <<x>>
  ELSE IF Head(sorted).priorityScore <= x.priorityScore
       THEN <<Head(sorted)>> \o InsertByScore_Ascending(Tail(sorted), x)
       ELSE <<x>> \o sorted

RECURSIVE InsertByScore(_, _)
InsertByScore(sorted, x) ==
  IF sorted = <<>> THEN <<x>>
  ELSE IF Head(sorted).priorityScore >= x.priorityScore
       THEN <<Head(sorted)>> \o InsertByScore(Tail(sorted), x)
       ELSE <<x>> \o sorted

\* SortByScore without the sort: the tasks stay in the order of the input
SortByScore_InputOrder(seq) == seq

RECURSIVE SortByScore(_)
SortByScore(seq) ==
  IF seq = <<>> THEN <<>>
  ELSE InsertByScore(SortByScore(SubSeq(seq, 1, Len(seq) - 1)), seq[Len(seq)])

\* Array.prototype.slice(0, n)
Slice(seq, n) == SubSeq(seq, 1, IF Len(seq) < n THEN Len(seq) ELSE n)

\* Array.prototype.includes
Includes(seq, x) == \E i \in 1..Len(seq) : seq[i] = x

\* `task.timeToDeadline && ...`: undefined and 0 are falsy
Truthy(timeToDeadline) == timeToDeadline # NoDate /\ timeToDeadline # 0

\* TodayFilter without the critical tasks
TodayFilter_NoCritical(task) ==
  task.urgencyLevel = "high" /\ Truthy(task.timeToDeadline)
    /\ task.timeToDeadline < 48

TodayFilter(task) ==
  \/ task.urgencyLevel = "critical"
  \/ task.urgencyLevel = "high" /\ Truthy(task.timeToDeadline)
       /\ task.timeToDeadline < 48

\* TomorrowFilter without the test that the task is already in today
TomorrowFilter_NoExclusion(task, todayTasks) ==
  \/ task.urgencyLevel = "high"
  \/ task.urgencyLevel = "medium" /\ Truthy(task.timeToDeadline)
       /\ task.timeToDeadline < 72

TomorrowFilter(task, todayTasks) ==
  /\ ~Includes(todayTasks, task)
  /\ \/ task.urgencyLevel = "high"
     \/ task.urgencyLevel = "medium" /\ Truthy(task.timeToDeadline)
          /\ task.timeToDeadline < 72

\* ThisWeekFilter without its time-to-deadline clause
ThisWeekFilter_NoDeadline(task, todayTasks, tomorrowTasks) ==
  /\ ~(Includes(todayTasks, task) \/ Includes(tomorrowTasks, task))
  /\ task.urgencyLevel = "medium"

ThisWeekFilter(task, todayTasks, tomorrowTasks) ==
  /\ ~(Includes(todayTasks, task) \/ Includes(tomorrowTasks, task))
  /\ \/ Truthy(task.timeToDeadline) /\ task.timeToDeadline < 168
     \/ task.urgencyLevel = "medium"

RECURSIVE SumDurations(_)
SumDurations(seq) ==
  IF seq = <<>> THEN 0
  ELSE (IF Head(seq).estimatedDuration = 0 THEN 30 ELSE Head(seq).estimatedDuration)
       + SumDurations(Tail(seq))

Encouragement == "no urgent tasks for today"
ManyUrgent == "many urgent tasks today"
OverdueWarning == "you have overdue tasks"
MoveToTomorrow == "today's tasks might take more than 8 hours"
ManyActive == "many active tasks"

\* getTaskSchedulingSuggestions
SchedulingSuggestions(prioritizedTasks) ==
  LET NotCompleted(t) == ~t.isCompleted
      IsCritical(t) == t.urgencyLevel = "critical"
      activeTasks == SelectSeq(prioritizedTasks, NotCompleted)
      todayTasks == Slice(SelectSeq(activeTasks, TodayFilter), 5)
      ForTomorrow(t) == TomorrowFilter(t, todayTasks)
      tomorrowTasks == Slice(SelectSeq(activeTasks, ForTomorrow), 3)
      ForThisWeek(t) == ThisWeekFilter(t, todayTasks, tomorrowTasks)
      thisWeekTasks == Slice(SelectSeq(activeTasks, ForThisWeek), 7)
      s1 == IF Len(todayTasks) = 0 THEN <<Encouragement>>
            ELSE IF Len(todayTasks) > 3 THEN <<ManyUrgent>>
            ELSE <<>>
      s2 == IF Len(SelectSeq(activeTasks, IsCritical)) > 0 THEN <<OverdueWarning>>
            ELSE <<>>
      s3 == IF SumDurations(todayTasks) > 480 THEN <<MoveToTomorrow>> ELSE <<>>
      s4 == IF Len(activeTasks) > 20 THEN <<ManyActive>> ELSE <<>>
  IN [todayTasks |-> todayTasks, tomorrowTasks |-> tomorrowTasks,
      thisWeekTasks |-> thisWeekTasks, suggestions |-> s1 \o s2 \o s3 \o s4]

NoSuggestion ==
  [todayTasks |-> <<>>, tomorrowTasks |-> <<>>, thisWeekTasks |-> <<>>,
   suggestions |-> <<>>]

PrioIdle ==
  /\ pnow = 0
  /\ ptasks = <<>>
  /\ prioritized = <<>>
  /\ suggestion = NoSuggestion
  /\ ppc = "input"

\* The user's task list grows by one task (lists are built in the order
\* of TaskKinds; prioritizeTasks sorts them by score)
PrioAddTask(k) ==
  /\ ppc = "input"
  /\ Len(ptasks) < MaxTasks
  /\ Len(ptasks) > 0 => ptasks[Len(ptasks)].kind <= k
  /\ ptasks' = Append(ptasks, MakeTask(Len(ptasks) + 1, k, pnow))
  /\ UNCHANGED <<setVars, remVars, voiceVars, aiVars, planVars, pnow, prioritized, suggestion, ppc>>

\* ProductivityInsights.generateAnalytics: prioritizeTasks(tasks, now)
prioritizeTasks ==
  /\ ppc = "input"
  /\ Len(ptasks) > 0
  /\ prioritized' = SortByScore([i \in 1..Len(ptasks) |-> Prioritize(ptasks[i], pnow)])
  /\ ppc' = "prioritized"
  /\ UNCHANGED <<setVars, remVars, voiceVars, aiVars, planVars, pnow, ptasks, suggestion>>

\* ... followed by getTaskSchedulingSuggestions(prioritizedTasks, now)
getTaskSchedulingSuggestions ==
  /\ ppc = "prioritized"
  /\ suggestion' = SchedulingSuggestions(prioritized)
  /\ ppc' = "suggested"
  /\ UNCHANGED <<setVars, remVars, voiceVars, aiVars, planVars, pnow, ptasks, prioritized>>

RemIdle ==
  /\ RemInit
  /\ useSupabase = FALSE

PrioInit ==
  /\ RemIdle
  /\ AiIdle
  /\ PlanIdle
  /\ pnow = 24 * 30
  /\ ptasks = <<>>
  /\ prioritized = <<>>
  /\ suggestion = NoSuggestion
  /\ ppc = "input"
  /\ VoiceIdle

PrioNext ==
  \/ \E k \in 1..Len(TaskKinds) : PrioAddTask(k)
  \/ prioritizeTasks
  \/ getTaskSchedulingSuggestions

PrioSpec == PrioInit /\ [][PrioNext]_vars

(***************************************************************************)
(* Voice pipeline: lib/openai.ts, app/api/parse/route.ts and the two        *)
(* VoiceInput components.  Time is in minutes; a string is the sequence of  *)
(* its characters.                                                          *)
(***************************************************************************)
\* The transcriptions: the one of n characters is <<1, ..., n>>
Transcription(n) == [i \in 1..n |-> i]

TranscriptionLengths == {0, 8, 50, 51, 1001}

\* A JSON date field: absent, a string Date cannot parse, or an ISO string
AbsentField == [k |-> "absent", at |-> 0]
Unparsable == [k |-> "unparsable", at |-> 0]
Iso(t) == [k |-> "iso", at |-> t]

\* A Date: undefined, Invalid Date, or an instant
Undefined == [k |-> "undefined", at |-> 0]
InvalidDate == [k |-> "invalid", at |-> 0]
Instant(t) == [k |-> "instant", at |-> t]

\* new Date(string)
NewDate(s) == IF s.k = "iso" THEN Instant(s.at) ELSE InvalidDate

\* the truthiness of a JSON date field
Present(s) == s.k # "absent"

\* The title the extractor makes up
AiTitle == <<101, 102, 103>>

\* What the objects the extractor answers with are made of; "" and <<>>
\* stand for a field that is absent or the empty string
AiObjects(t) ==
  [type : {"", "task", "event", "note"},
   title : {<<>>, AiTitle},
   priority : {"", "high", "urgent"},
   dueDate : {AbsentField, Unparsable, Iso(t + 120)},
   startTime : {AbsentField, Unparsable, Iso(t + 30), Iso(t + 120)},
   endTime : {AbsentField, Unparsable, Iso(t + 30), Iso(t + 120)}]

NoObject ==
  [type |-> "", title |-> <<>>, priority |-> "", dueDate |-> AbsentField,
   startTime |-> AbsentField, endTime |-> AbsentField]

\* The outcomes of openai.chat.completions.create: the call throws, the
\* message has no content, the content is not JSON, it is the JSON null, or
\* it is a JSON object
AiAnswers(t) ==
  {[kind |-> k, obj |-> NoObject] : k \in {"throws", "empty", "malformed", "null"}}
    \cup {[kind |-> "object", obj |-> o] : o \in AiObjects(t)}

\* String.prototype.slice(0, n)
SliceString(str, n) == SubSeq(str, 1, IF Len(str) < n THEN Len(str) ELSE n)

\* parseVoiceInput's catch block
Fallback(transcription) ==
  [type |-> "task", title |-> SliceString(transcription, 50),
   description |-> transcription, priority |-> "medium",
   dueDate |-> AbsentField, startTime |-> AbsentField, endTime |-> AbsentField]

\* parseVoiceInput
parseVoiceInput(transcription, ai) ==
  IF ai.kind # "object" THEN Fallback(transcription)
  ELSE [type |-> IF ai.obj.type = "" THEN "task" ELSE ai.obj.type,
        title |-> IF ai.obj.title = <<>> THEN SliceString(transcription, 50)
                  ELSE ai.obj.title,
        description |-> <<>>,
        priority |-> IF ai.obj.priority = "" THEN "medium" ELSE ai.obj.priority,
        dueDate |-> ai.obj.dueDate,
        startTime |-> ai.obj.startTime,
        endTime |-> ai.obj.endTime]

ErrorResponse(status, message) ==
  [status |-> status, error |-> message, result |-> <<>>]

\* POST /api/parse; body.text is <<>> when the body has no text field or an
\* empty one
POST(body, ai) ==
  IF body.text = <<>> THEN ErrorResponse(400, "No text provided for parsing")
  ELSE IF Len(body.text) > 1000 THEN ErrorResponse(400, "Text too long")
  ELSE IF ai.kind = "throws" THEN ErrorResponse(500, "Parsing failed")
  ELSE IF ai.kind = "empty" THEN ErrorResponse(500, "No response from AI")
  ELSE IF ai.kind = "malformed" THEN ErrorResponse(500, "Invalid JSON response from AI")
  ELSE IF ai.kind = "null" THEN ErrorResponse(500, "Parsing failed")
  ELSE IF ai.obj.type = "" \/ ai.obj.title = <<>>
       THEN ErrorResponse(500, "Missing required fields in AI response")
  ELSE IF ai.obj.type \notin {"task", "event"}
       THEN ErrorResponse(500, "Invalid type in AI response")
  ELSE [status |-> 200, error |-> "",
        result |-> <<[type |-> ai.obj.type, title |-> ai.obj.title,
                      description |-> <<>>,
                      priority |-> IF ai.obj.priority \in {"low", "medium", "high"}
                                   THEN ai.obj.priority ELSE "medium",
                      \* `try { new Date(x) } catch { delete }`: new Date
                      \* never throws, the fields stay
                      dueDate |-> ai.obj.dueDate,
                      startTime |-> ai.obj.startTime,
                      endTime |-> ai.obj.endTime]>>]

\* The Task literal of handleRecordingComplete
NewTask(p, t) ==
  [kind |-> "task", title |-> p.title,
   description |-> IF p.description = <<>> THEN p.title ELSE p.description,
   isCompleted |-> FALSE, createdAt |-> Instant(t),
   dueDate |-> IF Present(p.dueDate) THEN NewDate(p.dueDate) ELSE Undefined,
   startTime |-> Undefined, endTime |-> Undefined,
   priority |-> IF p.priority = "" THEN "medium" ELSE p.priority]

\* The CalendarEvent literal of handleRecordingComplete
NewEvent(p, t) ==
  [kind |-> "event", title |-> p.title, description |-> p.description,
   isCompleted |-> FALSE, createdAt |-> Instant(t), dueDate |-> Undefined,
   startTime |-> IF Present(p.startTime) THEN NewDate(p.startTime) ELSE Instant(t),
   endTime |-> IF Present(p.endTime) THEN NewDate(p.endTime) ELSE Instant(t + 60),
   priority |-> IF p.priority = "" THEN "medium" ELSE p.priority]

\* transcribeAudio returns the text of a recording
Transcribe(n) ==
  /\ vpc = "idle"
  /\ utterance' = Transcription(n)
  /\ vpc' = "transcribed"
  /\ UNCHANGED <<setVars, remVars, prioVars, aiVars, planVars, vnow, extracted, parsed, response, created>>

\* components/VoiceInput.tsx, step 2: parseVoiceInput(transcribedText)
ParseTranscription(ai) ==
  /\ vpc = "transcribed"
  /\ extracted' = <<ai>>
  /\ parsed' = <<parseVoiceInput(utterance, ai)>>
  /\ vpc' = "parsed"
  /\ UNCHANGED <<setVars, remVars, prioVars, aiVars, planVars, vnow, utterance, response, created>>

\* components/VoiceInput.tsx, step 3: create the task or the event
CreateFromParsed ==
  /\ vpc = "parsed"
  /\ created' = IF parsed[1].type = "task" THEN <<NewTask(parsed[1], vnow)>>
                ELSE IF parsed[1].type = "event" THEN <<NewEvent(parsed[1], vnow)>>
                ELSE <<>>
  /\ vpc' = "done"
  /\ UNCHANGED <<setVars, remVars, prioVars, aiVars, planVars, vnow, utterance, extracted, parsed, response>>

\* A request to POST /api/parse with the transcription as its text
PostParse(ai) ==
  /\ vpc = "transcribed"
  /\ extracted' = IF utterance = <<>> \/ Len(utterance) > 1000 THEN <<>> ELSE <<ai>>
  /\ response' = <<POST([text |-> utterance], ai)>>
  /\ vpc' = "responded"
  /\ UNCHANGED <<setVars, remVars, prioVars, aiVars, planVars, vnow, utterance, parsed, created>>

\* The VoiceInput of the storage service: it posts {transcription} where the
\* route reads {text}, and throws on the response that is not ok
ParseViaRoute ==
  /\ vpc = "transcribed"
  /\ response' = <<POST([text |-> <<>>], [kind |-> "throws", obj |-> NoObject])>>
  /\ vpc' = "failed"
  /\ UNCHANGED <<setVars, remVars, prioVars, aiVars, planVars, vnow, utterance, extracted, parsed, created>>

\* The instant of the recording
RecordingTime == 10 * 60

VoiceInit ==
  /\ RemIdle
  /\ PrioIdle
  /\ AiIdle
  /\ PlanIdle
  /\ vnow = RecordingTime
  /\ utterance = <<>>
  /\ extracted = <<>>
  /\ parsed = <<>>
  /\ response = <<>>
  /\ created = <<>>
  /\ vpc = "idle"

VoiceNext ==
  \/ \E n \in TranscriptionLengths : Transcribe(n)
  \/ \E ai \in AiAnswers(RecordingTime) : ParseTranscription(ai)
  \/ CreateFromParsed
  \/ \E ai \in AiAnswers(RecordingTime) : PostParse(ai)
  \/ ParseViaRoute

VoiceSpec == VoiceInit /\ [][VoiceNext]_vars

(***************************************************************************)
(* AI-assisted prioritization: AITaskPrioritizer (lib/ai-prioritization)    *)
(* and HomePage.handleAIPrioritization.  Time is in hours; task ids are     *)
(* the positions 1, 2, ... of the tasks in the list.                        *)
(***************************************************************************)
MaxAiTasks == 2
MaxAnswerLen == 3

\* An id no task of the list has
UnknownTaskId == MaxAiTasks + 1

\* The tasks the lists are made of: priority, completion, hours until due
\* (NoDate: no due date) and the keyword groups found in the description
AiKinds ==
  << [priority |-> "high", isCompleted |-> FALSE, due |-> NoDate,
      urgentKw |-> FALSE, deadlineKw |-> FALSE,
      importantKw |-> FALSE, meetingKw |-> FALSE],
     [priority |-> "low", isCompleted |-> FALSE, due |-> 12,
      urgentKw |-> FALSE, deadlineKw |-> TRUE,
      importantKw |-> TRUE, meetingKw |-> FALSE],
     [priority |-> "medium", isCompleted |-> TRUE, due |-> 100,
      urgentKw |-> TRUE, deadlineKw |-> FALSE,
      importantKw |-> FALSE, meetingKw |-> TRUE] >>

MakeAiTask(n, k, t) ==
  [taskId |-> n, priority |-> AiKinds[k].priority,
   isCompleted |-> AiKinds[k].isCompleted,
   dueDate |-> IF AiKinds[k].due = NoDate THEN NoDate ELSE t + AiKinds[k].due,
   urgentKw |-> AiKinds[k].urgentKw, deadlineKw |-> AiKinds[k].deadlineKw,
   importantKw |-> AiKinds[k].importantKw, meetingKw |-> AiKinds[k].meetingKw]

\* A TaskPriority of the AI's answer; its position is its suggestedOrder
AiEntries ==
  [taskId : 1..(MaxAiTasks + 1), priority : {"low", "high"},
   urgencyScore : {8}, importanceScore : {8}]

RECURSIVE SeqsUpTo(_, _)
SeqsUpTo(S, n) ==
  IF n = 0 THEN {<<>>}
  ELSE LET shorter == SeqsUpTo(S, n - 1)
       IN shorter \cup {Append(q, x) : q \in {r \in shorter : Len(r) = n - 1}, x \in S}

WithOrder(entries) ==
  [i \in 1..Len(entries) |->
     [taskId |-> entries[i].taskId, priority |-> entries[i].priority,
      urgencyScore |-> entries[i].urgencyScore,
      importanceScore |-> entries[i].importanceScore,
      suggestedOrder |-> i]]

\* The outcomes of the AI call: it throws, the message has no content, the
\* content is not JSON, it is JSON without a prioritizedTasks array, or it
\* is a PrioritizationResult
AiPrioAnswers ==
  {[kind |-> k, prioritizedTasks |-> <<>>] :
     k \in {"throws", "empty", "malformed", "noarray"}}
    \cup {[kind |-> "object", prioritizedTasks |-> WithOrder(q)] :
            q \in SeqsUpTo(AiEntries, MaxAnswerLen)}

Min(a, b) == IF a <= b THEN a ELSE b

\* Math.ceil(x / d) for d > 0
CeilDiv(x, d) == -((-x) \div d)

\* fallbackPrioritization's map of one task
FallbackEntry(task, t) ==
  LET daysUntilDue == CeilDiv(task.dueDate - t, 24)
      u0 == IF task.dueDate = NoDate THEN 5
            ELSE IF daysUntilDue <= 1 THEN 9
            ELSE IF daysUntilDue <= 3 THEN 7
            ELSE IF daysUntilDue <= 7 THEN 6
            ELSE 4
      u1 == IF task.urgentKw THEN Min(10, u0 + 3) ELSE u0
      urgencyScore == IF task.deadlineKw THEN Min(10, u1 + 2) ELSE u1
      i1 == IF task.importantKw THEN Min(10, 5 + 3) ELSE 5
      importanceScore == IF task.meetingKw THEN Min(10, i1 + 2) ELSE i1
      totalScore == urgencyScore + importanceScore
  IN [taskId |-> task.taskId,
      priority |-> IF totalScore >= 16 THEN "high"
                   ELSE IF totalScore >= 12 THEN "medium" ELSE "low",
      urgencyScore |-> urgencyScore, importanceScore |-> importanceScore,
      suggestedOrder |-> 0]

\* The comparator of fallbackPrioritization's sort: negative or zero when
\* a stays before b
FallbackBefore(a, b) ==
  LET scoreA == a.urgencyScore + a.importanceScore
      scoreB == b.urgencyScore + b.importanceScore
  IN IF scoreA # scoreB THEN scoreB - scoreA <= 0
     ELSE b.urgencyScore - a.urgencyScore <= 0

RECURSIVE InsertFallback(_, _)
InsertFallback(sorted, x) ==
  IF sorted = <<>> THEN <<x>>
  ELSE IF FallbackBefore(Head(sorted), x)
       THEN <<Head(sorted)>> \o InsertFallback(Tail(sorted), x)
       ELSE <<x>> \o sorted

RECURSIVE SortFallback(_)
SortFallback(seq) ==
  IF seq = <<>> THEN <<>>
  ELSE InsertFallback(SortFallback(SubSeq(seq, 1, Len(seq) - 1)), seq[Len(seq)])

\* AITaskPrioritizer.fallbackPrioritization
fallbackPrioritization(list, t) ==
  LET NotCompleted(x) == ~x.isCompleted
      active == SelectSeq(list, NotCompleted)
      sorted == SortFallback([i \in 1..Len(active) |-> FallbackEntry(active[i], t)])
  IN [prioritizedTasks |->
        [i \in 1..Len(sorted) |-> [sorted[i] EXCEPT !.suggestedOrder = i]]]

TaskIdsOf(seq) == {seq[i].taskId : i \in 1..Len(seq)}

\* AITaskPrioritizer.prioritizeTasks
AITaskPrioritizer(list, ans, t) ==
  IF Len(list) = 0 THEN [prioritizedTasks |-> <<>>]
  ELSE IF ans.kind # "object" THEN fallbackPrioritization(list, t)
  ELSE IF Cardinality(TaskIdsOf(ans.prioritizedTasks)) # Cardinality(TaskIdsOf(list))
       THEN fallbackPrioritization(list, t)
  ELSE [prioritizedTasks |-> ans.prioritizedTasks]

\* Array.prototype.find(p => p.taskId === id): the index of the first
\* entry with that id, 0 when there is none
FindEntry(entries, id) ==
  IF \E j \in 1..Len(entries) : entries[j].taskId = id
  THEN CHOOSE j \in 1..Len(entries) :
         /\ entries[j].taskId = id
         /\ \A l \in 1..(j - 1) : entries[l].taskId # id
  ELSE 0

\* priority?.suggestedOrder || 999
OrderOf(entries, id) ==
  LET j == FindEntry(entries, id)
  IN IF j = 0 \/ entries[j].suggestedOrder = 0 THEN 999
     ELSE entries[j].suggestedOrder

RECURSIVE InsertByOrder(_, _, _)
InsertByOrder(sorted, x, entries) ==
  IF sorted = <<>> THEN <<x>>
  ELSE IF OrderOf(entries, Head(sorted).taskId) - OrderOf(entries, x.taskId) <= 0
       THEN <<Head(sorted)>> \o InsertByOrder(Tail(sorted), x, entries)
       ELSE <<x>> \o sorted

RECURSIVE SortByOrder(_, _)
SortByOrder(seq, entries) ==
  IF seq = <<>> THEN <<>>
  ELSE InsertByOrder(SortByOrder(SubSeq(seq, 1, Len(seq) - 1), entries),
                     seq[Len(seq)], entries)

\* handleAIPrioritization's updatedTasks: the priority of the first entry
\* with the task's id, the task's own priority when there is none
UpdatedTasks(list, entries) ==
  [i \in 1..Len(list) |->
     LET j == FindEntry(entries, list[i].taskId)
     IN IF j # 0 THEN [list[i] EXCEPT !.priority = entries[j].priority]
        ELSE list[i]]

\* The user's task list grows by one task
AiAddTask(k) ==
  /\ apc = "input"
  /\ Len(atasks) < MaxAiTasks
  /\ atasks' = Append(atasks, MakeAiTask(Len(atasks) + 1, k, anow))
  /\ UNCHANGED <<setVars, remVars, prioVars, voiceVars, planVars, anow, aiAnswer,
                 aiResult, aiSaved, apc>>

\* handleAIPrioritization up to the result of
\* AITaskPrioritizer.prioritizeTasks(tasks); with no tasks it only sets an
\* error message
handleAIPrioritization(ans) ==
  /\ apc = "input"
  /\ Len(atasks) > 0
  /\ aiAnswer' = <<ans>>
  /\ aiResult' = <<AITaskPrioritizer(atasks, ans, anow)>>
  /\ apc' = "prioritized"
  /\ UNCHANGED <<setVars, remVars, prioVars, voiceVars, planVars, anow, atasks, aiSaved>>

\* handleAIPrioritization after the await: the priorities of the result are
\* merged into the tasks, the tasks sorted by suggested order, shown and
\* saved
handleAIPrioritizationResume ==
  LET entries == aiResult[1].prioritizedTasks
      sortedTasks == SortByOrder(UpdatedTasks(atasks, entries), entries)
  IN /\ apc = "prioritized"
     /\ atasks' = sortedTasks
     /\ aiSaved' = [i \in 1..Len(sortedTasks) |->
                      [taskId |-> sortedTasks[i].taskId,
                       priority |-> sortedTasks[i].priority]]
     /\ apc' = "applied"
     /\ UNCHANGED <<setVars, remVars, prioVars, voiceVars, planVars, anow, aiAnswer, aiResult>>

AiInit ==
  /\ RemIdle
  /\ PrioIdle
  /\ VoiceIdle
  /\ PlanIdle
  /\ anow = 24 * 30
  /\ atasks = <<>>
  /\ aiAnswer = <<>>
  /\ aiResult = <<>>
  /\ aiSaved = <<>>
  /\ apc = "input"

AiNext ==
  \/ \E k \in 1..Len(AiKinds) : AiAddTask(k)
  \/ \E ans \in AiPrioAnswers : handleAIPrioritization(ans)
  \/ handleAIPrioritizationResume

AiSpec == AiInit /\ [][AiNext]_vars

(***************************************************************************)
(* The reminder scheduler across page loads, with the scheduling the       *)
(* event loop, the database and the 60 s interval guarantee.               *)
(***************************************************************************)

\* The page is loaded again: the service's static state, its timeouts and
\* interval, and every call in flight are gone.  What the database holds
\* stays; under localStorage no reminder was stored anywhere.
Restart ==
  /\ restarts < MaxRestarts
  /\ restarts' = restarts + 1
  /\ activeReminders' = [r \in RemIds |-> 0]
  /\ timers' = {}
  /\ timerRem' = [h \in Handles |-> 0]
  /\ toSchedule' = {}
  /\ calls' = [c \in Callers |-> IdleCall]
  /\ intervals' = 0
  /\ sweep' = [i \in SweepIds |-> IdleSweep]
  /\ initPc' = "idle"
  /\ initSnap' = <<>>
  /\ UNCHANGED <<setVars, prioVars, voiceVars, aiVars, planVars, useSupabase, now, tasks, events, reminder, dbReminders,
                 dbTriggered, pendingDeletes, markFailures, log, attempts,
                 cancelled, deletedOwners>>

LiveNext ==
  \/ Tick
  \/ \E o \in TaskIds \cup EventIds, at \in Times : createTimeReminder(o, at)
  \/ \E rid \in RemIds : createReminderResume(rid)
  \/ initialize
  \/ initializeResume
  \/ \E h \in Handles : TimerFire(h)
  \/ \E c \in Callers : TrigMark(c)
  \/ \E c \in Callers : TrigLookup(c)
  \/ \E c \in Callers : TrigDispatch(c)
  \/ \E i \in SweepIds : checkReminders(i)
  \/ \E rid \in RemIds : cancelReminder(rid)
  \/ \E rid \in RemIds : deleteReminder(rid)
  \/ Restart

\* Time passes, HomePage's effect calls initialize() on every load, every
\* request is answered, every elapsed timeout's callback is run and the
\* interval keeps ticking.  Creating, cancelling and reloading are the
\* user's choice.
LiveFairness ==
  /\ WF_vars(Tick)
  /\ WF_vars(initialize)
  /\ WF_vars(initializeResume)
  /\ \A rid \in RemIds : WF_vars(createReminderResume(rid))
  /\ \A rid \in RemIds : WF_vars(deleteReminder(rid))
  /\ \A h \in Handles : WF_vars(TimerFire(h))
  /\ \A c \in Callers : WF_vars(TrigMark(c) \/ TrigLookup(c) \/ TrigDispatch(c))
  /\ \A i \in SweepIds : WF_vars(checkReminders(i))

(***************************************************************************)
(* Scoring of single tasks: lib/prioritization.ts over a grid of           *)
(* priorities, due dates around the bands' boundaries, and ages.           *)
(***************************************************************************)
MaxScoreTasks == 2
Priorities == {"high", "medium", "low"}
\* Hours from the reference time to the due date
DueOffsets == {-1, 0, 1, 2, 23, 24, 48, 71, 72, 73, NoDate}
\* Hours since the task was created: new, exactly 7 days, more than 7 days
Ages == {0, 7 * 24, 7 * 24 + 1}

\* A Task of the grid
GridTask(n, p, c, due, age, t) ==
  [taskId |-> n, kind |-> 0,
   priority |-> p,
   isCompleted |-> c,
   createdAt |-> t - age,
   dueDate |-> IF due = NoDate THEN NoDate ELSE t + due,
   titleLength |-> 20,
   longKeyword |-> FALSE,
   shortKeyword |-> FALSE]

ScoreAddTask(p, c, due, age) ==
  /\ ppc = "input"
  /\ Len(ptasks) < MaxScoreTasks
  /\ ptasks' = Append(ptasks, GridTask(Len(ptasks) + 1, p, c, due, age, pnow))
  /\ UNCHANGED <<setVars, remVars, voiceVars, aiVars, planVars, pnow, prioritized, suggestion, ppc>>

ScoreNext ==
  \/ \E p \in Priorities, c \in BOOLEAN, due \in DueOffsets, age \in Ages :
       ScoreAddTask(p, c, due, age)
  \/ prioritizeTasks

ScoreSpec == PrioInit /\ [][ScoreNext]_vars

(***************************************************************************)
(* The reminders created for a task or an event: createTaskReminders and   *)
(* createEventReminders of lib/reminders.ts.  Time is in minutes.          *)
(***************************************************************************)
\* The longest a createReminder request takes, in minutes
MaxAwait == 2

\* The labels of the triggers, which name the createReminder calls
DayBefore == "1 day before due date"
HourBefore == "1 hour before due date"
HighPriority == "High priority task reminder"
QuarterBefore == "15 minutes before event"
HourBeforeEvent == "1 hour before event"
TaskLabels == {DayBefore, HourBefore, HighPriority}
EventLabels == {QuarterBefore, HourBeforeEvent}

\* Minutes from the call to the due date of the task
TaskDueOffsets == {-10, 30, 60, 61, 120, 24 * 60, 24 * 60 + 1, 25 * 60, 50 * 60}
\* Minutes from the call to the start of the event, and its duration
EventStartOffsets == {-5, 10, 15, 16, 60, 61, 90}
EventDurations == {-30, 30, 60, 61, 90}

\* new Date(date.getTime() - minutes)
MinusMinutes(date, m) ==
  IF date.k = "instant" THEN Instant(date.at - m) ELSE InvalidDate

\* date > now: false for an Invalid Date
After(date, t) == date.k = "instant" /\ date.at > t

\* createReminder for one time trigger: the Reminder it returns, or
\* nothing when addReminder returned null
PlanCreateReminder(owner, label, at, clock, fails) ==
  IF label \in fails THEN <<>>
  ELSE << [taskId |-> IF owner.kind = "task" THEN owner.id ELSE NoId,
           eventId |-> IF owner.kind = "event" THEN owner.id ELSE NoId,
           triggerType |-> "time",
           triggerValue |-> at,
           label |-> label,
           isTriggered |-> FALSE,
           createdAt |-> clock] >>

\* TaskReminders with the reminder an hour before created only together
\* with the one a day before
TaskReminders_HourNeedsDay(task, t, fails, d) ==
  LET dueDate == task.dueDate
      hasDue == dueDate.k # "undefined"
      oneDayBefore == MinusMinutes(dueDate, 24 * 60)
      oneHourBefore == MinusMinutes(dueDate, 60)
      first == hasDue /\ After(oneDayBefore, t)
      second == first /\ After(oneHourBefore, t)
      clock1 == IF first THEN t + d ELSE t
      clock2 == IF second THEN clock1 + d ELSE clock1
  IN (IF first
      THEN PlanCreateReminder(task, DayBefore, oneDayBefore.at, t, fails)
      ELSE <<>>)
     \o (IF second
         THEN PlanCreateReminder(task, HourBefore, oneHourBefore.at, clock1, fails)
         ELSE <<>>)
     \o (IF task.priority = "high" /\ ~hasDue
         THEN PlanCreateReminder(task, HighPriority, clock2 + 2 * 60, clock2, fails)
         ELSE <<>>)

\* TaskReminders with the high priority reminder created whether or not the
\* task has a due date
TaskReminders_HighAlways(task, t, fails, d) ==
  LET dueDate == task.dueDate
      hasDue == dueDate.k # "undefined"
      oneDayBefore == MinusMinutes(dueDate, 24 * 60)
      oneHourBefore == MinusMinutes(dueDate, 60)
      first == hasDue /\ After(oneDayBefore, t)
      second == hasDue /\ After(oneHourBefore, t)
      clock1 == IF first THEN t + d ELSE t
      clock2 == IF second THEN clock1 + d ELSE clock1
  IN (IF first
      THEN PlanCreateReminder(task, DayBefore, oneDayBefore.at, t, fails)
      ELSE <<>>)
     \o (IF second
         THEN PlanCreateReminder(task, HourBefore, oneHourBefore.at, clock1, fails)
         ELSE <<>>)
     \o (IF task.priority = "high"
         THEN PlanCreateReminder(task, HighPriority, clock2 + 2 * 60, clock2, fails)
         ELSE <<>>)

\* The list createTaskReminders returns for a task when every request takes
\* d minutes; now is read once, before the first request
TaskReminders(task, t, fails, d) ==
  LET dueDate == task.dueDate
      hasDue == dueDate.k # "undefined"
      oneDayBefore == MinusMinutes(dueDate, 24 * 60)
      oneHourBefore == MinusMinutes(dueDate, 60)
      first == hasDue /\ After(oneDayBefore, t)
      second == hasDue /\ After(oneHourBefore, t)
      clock1 == IF first THEN t + d ELSE t
      clock2 == IF second THEN clock1 + d ELSE clock1
  IN (IF first
      THEN PlanCreateReminder(task, DayBefore, oneDayBefore.at, t, fails)
      ELSE <<>>)
     \o (IF second
         THEN PlanCreateReminder(task, HourBefore, oneHourBefore.at, clock1, fails)
         ELSE <<>>)
     \o (IF task.priority = "high" /\ ~hasDue
         THEN PlanCreateReminder(task, HighPriority, clock2 + 2 * 60, clock2, fails)
         ELSE <<>>)

\* EventReminders with events of exactly 60 minutes counted as longer
EventReminders_SixtyIncluded(event, t, fails, d) ==
  LET startTime == event.startTime
      fifteenMinutesBefore == MinusMinutes(startTime, 15)
      first == After(fifteenMinutesBefore, t)
      clock1 == IF first THEN t + d ELSE t
      \* NaN > 60 minutes is false
      longer == /\ event.endTime.k = "instant"
                /\ startTime.k = "instant"
                /\ event.endTime.at - startTime.at >= 60
      oneHourBefore == MinusMinutes(startTime, 60)
  IN (IF first
      THEN PlanCreateReminder(event, QuarterBefore, fifteenMinutesBefore.at, t, fails)
      ELSE <<>>)
     \o (IF longer /\ After(oneHourBefore, t)
         THEN PlanCreateReminder(event, HourBeforeEvent, oneHourBefore.at, clock1, fails)
         ELSE <<>>)

\* The list createEventReminders returns
EventReminders(event, t, fails, d) ==
  LET startTime == event.startTime
      fifteenMinutesBefore == MinusMinutes(startTime, 15)
      first == After(fifteenMinutesBefore, t)
      clock1 == IF first THEN t + d ELSE t
      \* NaN > 60 minutes is false
      longer == /\ event.endTime.k = "instant"
                /\ startTime.k = "instant"
                /\ event.endTime.at - startTime.at > 60
      oneHourBefore == MinusMinutes(startTime, 60)
  IN (IF first
      THEN PlanCreateReminder(event, QuarterBefore, fifteenMinutesBefore.at, t, fails)
      ELSE <<>>)
     \o (IF longer /\ After(oneHourBefore, t)
         THEN PlanCreateReminder(event, HourBeforeEvent, oneHourBefore.at, clock1, fails)
         ELSE <<>>)

\* The dates a task's dueDate, an event's startTime (both counted from the
\* call) and an event's endTime (counted from its start) can be
DueDates == {Undefined, InvalidDate} \cup {Instant(o) : o \in TaskDueOffsets}
StartTimes == {InvalidDate} \cup {Instant(o) : o \in EventStartOffsets}
EndTimes == {InvalidDate} \cup {Instant(o) : o \in EventDurations}

\* The date counted from instant t
From(date, t) == IF date.k = "instant" THEN Instant(t + date.at) ELSE date

\* Under localStorage addReminder always returns the reminder, in the same
\* turn of the event loop
StoreAllows(fails, d) == ~useSupabase => (fails = {} /\ d = 0)

createTaskReminders(p, due, fails, d) ==
  LET task == [kind |-> "task", id |-> "t1", priority |-> p,
               dueDate |-> From(due, plnow)]
  IN /\ plpc = "idle"
     /\ StoreAllows(fails, d)
     /\ plOwner' = <<task>>
     /\ plFails' = fails
     /\ planned' = TaskReminders(task, plnow, fails, d)
     /\ plpc' = "task"
     /\ UNCHANGED <<setVars, remVars, prioVars, voiceVars, aiVars, plnow>>

createEventReminders(start, end, fails, d) ==
  LET startTime == From(start, plnow)
      event == [kind |-> "event", id |-> "e1",
                startTime |-> startTime,
                endTime |-> From(end, IF startTime.k = "instant" THEN startTime.at
                                      ELSE plnow)]
  IN /\ plpc = "idle"
     /\ StoreAllows(fails, d)
     /\ plOwner' = <<event>>
     /\ plFails' = fails
     /\ planned' = EventReminders(event, plnow, fails, d)
     /\ plpc' = "event"
     /\ UNCHANGED <<setVars, remVars, prioVars, voiceVars, aiVars, plnow>>

\* The reminders table's reminder_reference_check: exactly one of taskId
\* and eventId is not null
ReferenceCheck(rem) ==
  \/ rem.taskId # NoId /\ rem.eventId = NoId
  \/ rem.taskId = NoId /\ rem.eventId # NoId

\* createReminder for the options it is given: the Reminder takes
\* options.taskId and options.eventId as they are.  Under Supabase the
\* insert of a row the table's check rejects fails and addReminder returns
\* null; under localStorage addReminder returns the reminder.
CreateReminderFor(options, clock, failed) ==
  LET rem == [taskId |-> options.taskId,
              eventId |-> options.eventId,
              triggerType |-> options.type,
              triggerValue |-> options.value,
              label |-> options.label,
              isTriggered |-> FALSE,
              createdAt |-> clock]
  IN IF failed \/ (useSupabase /\ ~ReferenceCheck(rem)) THEN <<>> ELSE <<rem>>

LocationLabel == "Within 100m of location"

\* A caller of createReminder with options of its own choice
createReminderWith(t, e, ty, failed) ==
  LET options == [kind |-> "options", id |-> NoId, taskId |-> t, eventId |-> e,
                  type |-> ty,
                  value |-> IF ty = "time" THEN plnow + 2 * 60 ELSE 0,
                  label |-> "custom"]
  IN /\ plpc = "idle"
     /\ StoreAllows(IF failed THEN {"custom"} ELSE {}, 0)
     /\ plOwner' = <<options>>
     /\ plFails' = IF failed THEN {"custom"} ELSE {}
     /\ planned' = CreateReminderFor(options, plnow, failed)
     /\ plpc' = "direct"
     /\ UNCHANGED <<setVars, remVars, prioVars, voiceVars, aiVars, plnow>>

\* createLocationReminder(taskId, latitude, longitude): null without
\* geolocation, else createReminder with the taskId and a location trigger
createLocationReminder(geolocation, failed) ==
  LET options == [kind |-> "options", id |-> "t1", taskId |-> "t1",
                  eventId |-> NoId, type |-> "location", value |-> 0,
                  label |-> LocationLabel]
  IN /\ plpc = "idle"
     /\ StoreAllows(IF failed THEN {LocationLabel} ELSE {}, 0)
     /\ plOwner' = <<options>>
     /\ plFails' = IF failed THEN {LocationLabel} ELSE {}
     /\ planned' = IF geolocation THEN CreateReminderFor(options, plnow, failed)
                   ELSE <<>>
     /\ plpc' = "location"
     /\ UNCHANGED <<setVars, remVars, prioVars, voiceVars, aiVars, plnow>>

\* What StorageService.addTask or addEvent does with the item: it returns
\* it, returns null (Supabase answered with an error) or throws
PersistOutcomes == {"saved", "null", "throws"}

\* RemindersAfterSave without the test of what addTask or addEvent returned
RemindersAfterSave_Unchecked(owner, t, fails, d) ==
  IF owner.kind = "task" THEN TaskReminders(owner, t, fails, d)
  ELSE EventReminders(owner, t, fails, d)

\* Step 3 of handleRecordingComplete after addTask or addEvent: the
\* reminders are created for the saved item; null skips them and an
\* exception leaves the try block
RemindersAfterSave(owner, t, fails, d) ==
  IF owner.persisted # "saved" THEN <<>>
  ELSE IF owner.kind = "task" THEN TaskReminders(owner, t, fails, d)
  ELSE EventReminders(owner, t, fails, d)

\* Under localStorage addTask and addEvent return the item or throw
PersistAllows(outcome) == ~useSupabase => outcome # "null"

\* handleRecordingComplete, step 3, for a parsed task: the task is stored,
\* which takes d minutes, and then its reminders are created
handleRecordingCompleteTask(p, due, outcome, fails, d) ==
  LET task == [kind |-> "task", id |-> "t1", priority |-> p,
               dueDate |-> From(due, plnow),
               persisted |-> outcome, persistedAt |-> plnow + d]
  IN /\ plpc = "idle"
     /\ StoreAllows(fails, d)
     /\ PersistAllows(outcome)
     /\ plOwner' = <<task>>
     /\ plFails' = fails
     /\ planned' = RemindersAfterSave(task, plnow + d, fails, d)
     /\ plpc' = "recorded"
     /\ UNCHANGED <<setVars, remVars, prioVars, voiceVars, aiVars, plnow>>

\* The same for a parsed event
handleRecordingCompleteEvent(start, end, outcome, fails, d) ==
  LET startTime == From(start, plnow)
      event == [kind |-> "event", id |-> "e1",
                startTime |-> startTime,
                endTime |-> From(end, IF startTime.k = "instant" THEN startTime.at
                                      ELSE plnow),
                persisted |-> outcome, persistedAt |-> plnow + d]
  IN /\ plpc = "idle"
     /\ StoreAllows(fails, d)
     /\ PersistAllows(outcome)
     /\ plOwner' = <<event>>
     /\ plFails' = fails
     /\ planned' = RemindersAfterSave(event, plnow + d, fails, d)
     /\ plpc' = "recorded"
     /\ UNCHANGED <<setVars, remVars, prioVars, voiceVars, aiVars, plnow>>

\* The form is used again
PlanReset ==
  /\ plpc # "idle"
  /\ plOwner' = <<>>
  /\ plFails' = {}
  /\ planned' = <<>>
  /\ plpc' = "idle"
  /\ UNCHANGED <<setVars, remVars, prioVars, voiceVars, aiVars, plnow>>

PlanInit ==
  /\ RemInit
  /\ PrioIdle
  /\ VoiceIdle
  /\ AiIdle
  /\ PlanIdle

PlanNext ==
  \/ \E p \in Priorities, due \in DueDates,
        fails \in SUBSET TaskLabels, d \in 0..MaxAwait :
       createTaskReminders(p, due, fails, d)
  \/ \E start \in StartTimes, end \in EndTimes,
        fails \in SUBSET EventLabels, d \in 0..MaxAwait :
       createEventReminders(start, end, fails, d)
  \/ \E t \in {NoId} \cup TaskIds, e \in {NoId} \cup EventIds,
        ty \in {"time", "location", "completion"}, failed \in BOOLEAN :
       createReminderWith(t, e, ty, failed)
  \/ \E geolocation \in BOOLEAN, failed \in BOOLEAN :
       createLocationReminder(geolocation, failed)
  \/ \E p \in Priorities, due \in DueDates, outcome \in PersistOutcomes,
        fails \in SUBSET TaskLabels, d \in 0..MaxAwait :
       handleRecordingCompleteTask(p, due, outcome, fails, d)
  \/ \E start \in StartTimes, end \in EndTimes, outcome \in PersistOutcomes,
        fails \in SUBSET EventLabels, d \in 0..MaxAwait :
       handleRecordingCompleteEvent(start, end, outcome, fails, d)
  \/ PlanReset

PlanSpec == PlanInit /\ [][PlanNext]_vars

(***************************************************************************)
(* Settings and the ReminderService it imports: reminders kept under the   *)
(* localStorage key speakeasy_reminders, one setTimeout per scheduled      *)
(* reminder.                                                               *)
(***************************************************************************)
MaxSettingsTime == 2
MaxHandles == 2

TriggerTimes == {1, 2}

\* The reminders a backup file can hold: lists of up to two reminders
\* with different ids
StoredReminders ==
  [reminderId : SvcIds, triggerType : {"time", "location"},
   triggerValue : TriggerTimes, isTriggered : BOOLEAN]
BackupFiles ==
  {<<>>} \cup {<<r>> : r \in StoredReminders}
         \cup {<<r, q>> : r \in {x \in StoredReminders : x.reminderId = "s1"},
                          q \in {x \in StoredReminders : x.reminderId = "s2"}}

\* getActiveReminders: the stored reminders not yet triggered
RECURSIVE getActiveReminders(_)
getActiveReminders(stored) ==
  IF stored = <<>> THEN <<>>
  ELSE (IF ~Head(stored).isTriggered THEN <<Head(stored)>> ELSE <<>>)
       \o getActiveReminders(Tail(stored))

\* The stored list without the reminders of one id
RECURSIVE WithoutId(_, _)
WithoutId(stored, id) ==
  IF stored = <<>> THEN <<>>
  ELSE (IF Head(stored).reminderId # id THEN <<Head(stored)>> ELSE <<>>)
       \o WithoutId(Tail(stored), id)

\* ReminderService.cancelReminder on the service's state st: the timer stored under the id
\* is cleared and its entry deleted, the reminder leaves the storage
ReminderServiceCancelReminder(st, id) ==
  [st EXCEPT !.active[id] = 0,
             !.timeouts = {t \in st.timeouts : t.h # st.active[id]},
             !.stored = WithoutId(st.stored, id)]

\* activeReminders.forEach(reminder => cancelReminder(reminder.reminderId))
RECURSIVE CancelEach(_, _)
CancelEach(list, st) ==
  IF list = <<>> THEN st
  ELSE CancelEach(Tail(list), ReminderServiceCancelReminder(st, Head(list).reminderId))

\* initializeReminders' loop: each reminder of the list whose time is
\* still ahead gets a new timeout, stored under its id
RECURSIVE ScheduleEach(_, _, _)
ScheduleEach(list, st, clock) ==
  IF list = <<>> THEN st
  ELSE LET r == Head(list)
           h == st.handles + 1
       IN IF r.triggerValue - clock > 0
          THEN ScheduleEach(Tail(list),
                 [st EXCEPT !.handles = h,
                            !.active[r.reminderId] = h,
                            !.timeouts = @ \cup {[h |-> h, reminderId |-> r.reminderId,
                                                  at |-> r.triggerValue,
                                                  stale |-> FALSE]}],
                 clock)
          ELSE ScheduleEach(Tail(list), st, clock)

\* The untriggered time reminders of the storage
RECURSIVE TimeReminders(_)
TimeReminders(stored) ==
  IF stored = <<>> THEN <<>>
  ELSE (IF ~Head(stored).isTriggered /\ Head(stored).triggerType = "time"
        THEN <<Head(stored)>> ELSE <<>>)
       \o TimeReminders(Tail(stored))

\* The service's state as a record
SvcState ==
  [active |-> svcActive, timeouts |-> timeouts, stored |-> speakeasyReminders,
   handles |-> handles]

\* The clock advances
SettingsTick ==
  /\ snow < MaxSettingsTime
  /\ snow' = snow + 1
  /\ setpc' = "tick"
  /\ UNCHANGED <<remVars, prioVars, voiceVars, aiVars, planVars,
                 speakeasyReminders, svcActive, timeouts, handles, shown, lateShown>>

\* handleImportData: the file's reminders replace the stored ones
handleImportData(file) ==
  /\ speakeasyReminders' = file
  /\ setpc' = "imported"
  /\ UNCHANGED <<remVars, prioVars, voiceVars, aiVars, planVars,
                 snow, svcActive, timeouts, handles, shown, lateShown>>

\* handleRefreshReminders: ReminderService.initializeReminders()
handleRefreshReminders ==
  LET st == ScheduleEach(TimeReminders(speakeasyReminders), SvcState, snow)
  IN /\ st.handles <= MaxHandles
     /\ svcActive' = st.active
     /\ timeouts' = st.timeouts
     /\ handles' = st.handles
     /\ setpc' = "refreshed"
     /\ UNCHANGED <<remVars, prioVars, voiceVars, aiVars, planVars,
                    snow, speakeasyReminders, shown, lateShown>>

\* The stored list with the reminders of one id marked as triggered
RECURSIVE MarkTriggered(_, _)
MarkTriggered(stored, id) ==
  IF stored = <<>> THEN <<>>
  ELSE <<IF Head(stored).reminderId = id
         THEN [Head(stored) EXCEPT !.isTriggered = TRUE]
         ELSE Head(stored)>> \o MarkTriggered(Tail(stored), id)

\* A timeout's callback: triggerReminder marks the stored reminder if it
\* is still there, shows the notification and deletes the id's entry
TimeoutFires(t) ==
  /\ t \in timeouts
  /\ t.at <= snow
  /\ timeouts' = timeouts \ {t}
  /\ speakeasyReminders' = MarkTriggered(speakeasyReminders, t.reminderId)
  /\ shown' = [shown EXCEPT ![t.reminderId] = @ + 1]
  /\ lateShown' = IF t.stale THEN lateShown \cup {t.reminderId} ELSE lateShown
  /\ svcActive' = [svcActive EXCEPT ![t.reminderId] = 0]
  /\ setpc' = "fired"
  /\ UNCHANGED <<remVars, prioVars, voiceVars, aiVars, planVars, snow, handles>>

\* handleClearAllData: the storage is emptied, then the reminders that
\* getActiveReminders reads from it are cancelled. The timeouts that
\* remain were scheduled before this clear.
handleClearAllData(confirmed) ==
  IF ~confirmed THEN UNCHANGED vars
  ELSE LET emptied == [SvcState EXCEPT !.stored = <<>>]
           st == CancelEach(getActiveReminders(emptied.stored), emptied)
       IN /\ speakeasyReminders' = st.stored
          /\ svcActive' = st.active
          /\ timeouts' = {[t EXCEPT !.stale = TRUE] : t \in st.timeouts}
          /\ setpc' = "cleared"
          /\ UNCHANGED <<remVars, prioVars, voiceVars, aiVars, planVars,
                         snow, handles, shown, lateShown>>

SettingsTimeouts ==
  [h : 1..MaxHandles, reminderId : SvcIds, at : TriggerTimes, stale : BOOLEAN]

SettingsInit == RemIdle /\ PrioIdle /\ VoiceIdle /\ AiIdle /\ PlanIdle

SettingsNext ==
  \/ SettingsTick
  \/ \E file \in BackupFiles : handleImportData(file)
  \/ handleRefreshReminders
  \/ \E t \in SettingsTimeouts : TimeoutFires(t)
  \/ \E confirmed \in BOOLEAN : handleClearAllData(confirmed)

SettingsSpec == SettingsInit /\ [][SettingsNext]_vars

Init == RemInit /\ PrioIdle /\ VoiceIdle /\ AiIdle /\ PlanIdle
Spec == Init /\ [][Next]_vars
LiveSpec == Init /\ [][LiveNext]_vars /\ LiveFairness

(***************************************************************************)
(* Claims about the reminder scheduler                                     *)
(***************************************************************************)

\* No triggerReminder call is running for reminder r
Quiet(r) == \A c \in Callers : calls[c].pc = "idle" \/ calls[c].rid # r

\* C1: when a timer callback and a sweep have both called triggerReminder
\* for the same reminder and both calls have ended, exactly one
\* notification has been dispatched for it (no storage update failed).
C1_RaceDispatchesOnce ==
  \A r \in RemIds :
    (markFailures = 0 /\ {"timer", "sweep"} \subseteq attempts[r] /\ Quiet(r))
      => Len(log[r]) = 1

\* C2: once a reminder's persisted isTriggered flag is true and it has been
\* notified, no step dispatches another notification for it, and no step
\* sets the flag of its row back to false (no storage update failed).
C2_FiredAtMostOnce ==
  [][\A r \in RemIds :
       /\ (markFailures' = 0 /\ r \in dbTriggered /\ Len(log[r]) >= 1)
            => log'[r] = log[r]
       /\ (r \in dbTriggered /\ r \in dbReminders') => r \in dbTriggered']_vars

\* C4: after cancelReminder(id) has been called, no notification is
\* dispatched for that reminder.
C4_CancelSuppresses ==
  [][\A r \in cancelled : log'[r] = log[r]]_vars

\* C5: a task or event deleted through the delete flow has no reminder
\* with an entry in activeReminders and no reminder row in storage.
C5_DeleteCascades ==
  \A o \in deletedOwners :
    \A r \in OwnedBy(o) : activeReminders[r] = 0 /\ r \notin dbReminders


(***************************************************************************)
(* Claims about prioritization (PrioSpec)                                  *)
(***************************************************************************)
Occurrences(seq, x) == Cardinality({i \in 1..Len(seq) : seq[i] = x})

SixCritical ==
  /\ ppc = "suggested"
  /\ Len(prioritized) = 6
  /\ \A i \in 1..6 : ~prioritized[i].isCompleted
                     /\ prioritized[i].urgencyLevel = "critical"

\* C3: the priority score of every completed task is exactly 0, whatever
\* its priority, due date and age.
C3_CompletedScoreZero ==
  \A i \in 1..Len(prioritized) :
    prioritized[i].isCompleted => prioritized[i].priorityScore = 0

C7_BucketsExclusive ==
  ppc = "suggested" =>
    \A i \in 1..Len(prioritized) :
      LET n == Occurrences(suggestion.todayTasks, prioritized[i])
               + Occurrences(suggestion.tomorrowTasks, prioritized[i])
               + Occurrences(suggestion.thisWeekTasks, prioritized[i])
      IN n <= 1 /\ (prioritized[i].isCompleted => n = 0)

C7_Witness ==
  /\ ppc = "suggested"
  /\ Len(suggestion.todayTasks) > 0
  /\ Len(suggestion.tomorrowTasks) > 0
  /\ Len(suggestion.thisWeekTasks) > 0
  /\ \E i \in 1..Len(prioritized) : prioritized[i].isCompleted
  /\ \E i \in 1..Len(prioritized) :
       /\ prioritized[i].urgencyLevel = "high"
       /\ Includes(suggestion.todayTasks, prioritized[i])


(***************************************************************************)
(* Claims about the voice pipeline (VoiceSpec)                             *)
(***************************************************************************)
EventCreated ==
  /\ vpc = "done"
  /\ created # <<>>
  /\ created[1].kind = "event"

\* An error of the extractor: the call failed, the answer was empty or not
\* JSON, or a required field (type, title) is missing
ExtractorError(ai) ==
  \/ ai.kind # "object"
  \/ ai.obj.type = ""
  \/ ai.obj.title = <<>>

IsFallback(p) ==
  /\ p.type = "task"
  /\ p.title = SliceString(utterance, 50)
  /\ p.priority = "medium"
  /\ ~Present(p.dueDate) /\ ~Present(p.startTime) /\ ~Present(p.endTime)

\* C8: an event created from a parsed intent with a start instant and no
\* end instant ends 60 minutes after its start; with neither, it starts now
\* and ends at now + 60 minutes.
C8_EndDefaultsToStartPlus60 ==
  (EventCreated /\ ~Present(parsed[1].endTime)) =>
    /\ parsed[1].startTime.k = "iso" =>
         created[1].endTime = Instant(created[1].startTime.at + 60)
    /\ ~Present(parsed[1].startTime) =>
         /\ created[1].startTime = Instant(vnow)
         /\ created[1].endTime = Instant(vnow + 60)

\* C9: every event the voice pipeline creates has endTime >= startTime
\* (stated for the events whose two instants are valid dates).
C9_EndNotBeforeStart ==
  (EventCreated /\ created[1].startTime.k = "instant"
     /\ created[1].endTime.k = "instant")
    => created[1].endTime.at >= created[1].startTime.at

\* C10: parse never fails: on an extractor error parseVoiceInput returns
\* the fallback (task, first 50 characters as title, medium, no dates), and
\* so does POST /api/parse.
C10_ParseNeverFails ==
  /\ (vpc = "parsed" /\ ExtractorError(extracted[1])) => IsFallback(parsed[1])
  /\ (vpc = "responded" /\ extracted # <<>> /\ ExtractorError(extracted[1])) =>
       /\ response[1].status = 200
       /\ response[1].result # <<>>
       /\ IsFallback(response[1].result[1])

\* An answer of the extractor that must not be accepted: its type is not
\* 'task' or 'event', or its title is empty
InvalidOutput(ai) ==
  /\ ai.kind = "object"
  /\ ai.obj.type \notin {"task", "event"} \/ ai.obj.title = <<>>

\* C11: an extractor answer is accepted only with type 'task' or 'event'
\* and a non-empty title; for any other answer the fallback is returned (by
\* parseVoiceInput and by POST /api/parse), so every parsed intent handed to
\* creation has such a type and, the utterance not being empty, a title.
C11_OnlyValidAccepted ==
  /\ (vpc = "parsed" /\ utterance # <<>>) =>
       /\ parsed[1].type \in {"task", "event"}
       /\ parsed[1].title # <<>>
  /\ (vpc = "parsed" /\ InvalidOutput(extracted[1])) => IsFallback(parsed[1])
  /\ (vpc = "responded" /\ extracted # <<>> /\ InvalidOutput(extracted[1])) =>
       /\ response[1].status = 200
       /\ response[1].result # <<>>
       /\ IsFallback(response[1].result[1])

(***************************************************************************)
(* Claims about AI-assisted prioritization (AiSpec)                        *)
(***************************************************************************)
\* Every task id of the list is the id of exactly one entry, and no entry
\* has another id
EveryIdExactlyOnce(entries, list) ==
  /\ \A i \in 1..Len(list) :
       Cardinality({j \in 1..Len(entries) : entries[j].taskId = list[i].taskId}) = 1
  /\ \A j \in 1..Len(entries) : entries[j].taskId \in TaskIdsOf(list)

\* C12: the assisted result is used only if every input task id appears
\* exactly once in it; for any mismatch or malformed answer the result is
\* the one of the deterministic fallback.
C12_AssistedOnlyIfComplete ==
  apc = "prioritized" =>
    IF aiAnswer[1].kind = "object"
       /\ EveryIdExactlyOnce(aiAnswer[1].prioritizedTasks, atasks)
    THEN aiResult[1].prioritizedTasks = aiAnswer[1].prioritizedTasks
    ELSE aiResult[1] = fallbackPrioritization(atasks, anow)


\* The time reminder with this id exists, was not cancelled, has not been
\* fired and its trigger instant has come
PendingDue(rid) ==
  /\ reminder[rid].triggerType = "time"
  /\ rid \notin cancelled
  /\ reminder[rid].triggerValue <= now
  /\ log[rid] = <<>>

\* C13: under fair scheduling of the 60 s sweep, every time reminder that
\* was created and not cancelled is fired once its trigger instant has
\* come, also after a page load in which its timer was lost, with
\* Supabase and with localStorage.
C13_SweepEventuallyFires ==
  \A rid \in RemIds : PendingDue(rid) ~> (log[rid] # <<>> \/ rid \in cancelled)


\* The triggerReminder call that shows a notification for this reminder in
\* this step began after the reminder's owner had been deleted.  Under
\* localStorage the whole call is the step of the timeout's callback.
OrphanDispatch(rid) ==
  /\ Len(log'[rid]) = Len(log[rid]) + 1
  /\ IF useSupabase
     THEN \E c \in Callers : /\ calls[c].pc = "dispatch"
                             /\ calls[c].rid = rid
                             /\ calls[c].orphan
                             /\ calls'[c] # calls[c]
     ELSE Orphaned(reminder[rid])

\* C14: when the owner of a reminder was deleted before the reminder
\* fires, the firing completes: no untriggered row of the reminder is left,
\* the notification shown has the placeholder title, and the reminder's
\* entry of activeReminders is removed.
C14_OrphanFiresGeneric ==
  [][\A rid \in RemIds :
       OrphanDispatch(rid) =>
         /\ rid \notin dbReminders' \ dbTriggered'
         /\ log'[rid][Len(log'[rid])].title = "Reminder"
         /\ activeReminders'[rid] = 0]_vars


(***************************************************************************)
(* Claims about the scoring of tasks (ScoreSpec)                           *)
(***************************************************************************)
\* C15 as stated: every task with priority high and a due date in the past
\* scores at least 300 and has urgency critical.
C15_HighOverdueAtLeast300 ==
  \A i \in 1..Len(prioritized) :
    (prioritized[i].priority = "high"
       /\ prioritized[i].dueDate # NoDate /\ prioritized[i].dueDate < pnow) =>
      /\ prioritized[i].priorityScore >= 300
      /\ prioritized[i].urgencyLevel = "critical"

\* C15 for the tasks it holds for: every incomplete task with priority high
\* and a due date in the past scores at least 300 and has urgency critical.
C15_IncompleteHighOverdueAtLeast300 ==
  \A i \in 1..Len(prioritized) :
    (~prioritized[i].isCompleted /\ prioritized[i].priority = "high"
       /\ prioritized[i].dueDate # NoDate /\ prioritized[i].dueDate < pnow) =>
      /\ prioritized[i].priorityScore >= 300
      /\ prioritized[i].urgencyLevel = "critical"

C15_Witness ==
  /\ ppc = "prioritized"
  /\ \E i \in 1..Len(prioritized) :
       /\ ~prioritized[i].isCompleted
       /\ prioritized[i].priority = "high"
       /\ prioritized[i].dueDate = pnow - 1
       /\ prioritized[i].priorityScore = 300
       /\ prioritized[i].urgencyLevel = "critical"


\* The hours from now to the due date of a prioritized task that has one
HoursToDue(task) == task.dueDate - pnow

\* C16: the score of every incomplete task is its base (high 100, medium
\* 50, low 25) plus exactly one due-date band (overdue 200, under 2 h 150,
\* under 24 h 75, under 72 h 25, otherwise or without due date 0) plus 10
\* when the task is older than 7 days; the upper boundary of a band belongs
\* to the next band.
C16_ScoreIsBasePlusBandPlusAge ==
  \A i \in 1..Len(prioritized) :
    LET task == prioritized[i]
        h == HoursToDue(task)
        base == CASE task.priority = "high" -> 100
                  [] task.priority = "medium" -> 50
                  [] task.priority = "low" -> 25
        band == CASE task.dueDate = NoDate -> 0
                  [] task.dueDate # NoDate /\ h < 0 -> 200
                  [] task.dueDate # NoDate /\ 0 <= h /\ h < 2 -> 150
                  [] task.dueDate # NoDate /\ 2 <= h /\ h < 24 -> 75
                  [] task.dueDate # NoDate /\ 24 <= h /\ h < 72 -> 25
                  [] task.dueDate # NoDate /\ 72 <= h -> 0
        old == IF pnow - task.createdAt > 7 * 24 THEN 10 ELSE 0
    IN ~task.isCompleted => task.priorityScore = base + band + old

\* Two incomplete tasks on boundaries: one due in exactly 2 hours and older
\* than 7 days, one due in exactly 72 hours and exactly 7 days old
C16_Witness ==
  /\ ppc = "prioritized"
  /\ \E i \in 1..Len(prioritized) :
       /\ ~prioritized[i].isCompleted
       /\ prioritized[i].priority = "medium"
       /\ HoursToDue(prioritized[i]) = 2
       /\ pnow - prioritized[i].createdAt = 7 * 24 + 1
       /\ prioritized[i].priorityScore = 50 + 75 + 10
  /\ \E i \in 1..Len(prioritized) :
       /\ ~prioritized[i].isCompleted
       /\ prioritized[i].priority = "low"
       /\ HoursToDue(prioritized[i]) = 72
       /\ pnow - prioritized[i].createdAt = 7 * 24
       /\ prioritized[i].priorityScore = 25

\* C17: the urgency tier is determined by completion, due date, priority
\* and the current time: low for a completed task; otherwise critical when
\* overdue or due in under 2 h, high under 24 h, medium under 72 h, and the
\* task's own priority without due date or from 72 h on.
C17_UrgencyTier ==
  \A i \in 1..Len(prioritized) :
    LET task == prioritized[i]
        h == HoursToDue(task)
        tier == CASE task.isCompleted -> "low"
                  [] ~task.isCompleted /\ task.dueDate # NoDate /\ h < 2 -> "critical"
                  [] ~task.isCompleted /\ task.dueDate # NoDate /\ 2 <= h /\ h < 24 -> "high"
                  [] ~task.isCompleted /\ task.dueDate # NoDate /\ 24 <= h /\ h < 72 -> "medium"
                  [] ~task.isCompleted /\ (task.dueDate = NoDate \/ h >= 72) -> task.priority
    IN task.urgencyLevel = tier

\* A low-priority task due in under 2 hours is critical and a high-priority
\* task due in 48 hours is medium
C17_Witness ==
  /\ ppc = "prioritized"
  /\ \E i \in 1..Len(prioritized) :
       /\ ~prioritized[i].isCompleted
       /\ prioritized[i].priority = "low"
       /\ HoursToDue(prioritized[i]) = 1
       /\ prioritized[i].urgencyLevel = "critical"
  /\ \E i \in 1..Len(prioritized) :
       /\ ~prioritized[i].isCompleted
       /\ prioritized[i].priority = "high"
       /\ HoursToDue(prioritized[i]) = 48
       /\ prioritized[i].urgencyLevel = "medium"


(***************************************************************************)
(* Claims about the reminders created for a task or event (PlanSpec)       *)
(***************************************************************************)
\* The trigger instants of the created reminders, in order
TriggerValues(seq) == [i \in 1..Len(seq) |-> seq[i].triggerValue]

C19_TaskDueReminders ==
  (plpc = "task" /\ plOwner[1].dueDate.k = "instant") =>
    LET D == plOwner[1].dueDate.at
        day == IF D - 24 * 60 > plnow THEN <<D - 24 * 60>> ELSE <<>>
        hour == IF D - 60 > plnow THEN <<D - 60>> ELSE <<>>
    IN /\ plFails = {} => TriggerValues(planned) = day \o hour
       /\ \A i \in 1..Len(planned) : planned[i].triggerValue > planned[i].createdAt

\* The reminder an hour before is created without the one a day before
C19_Witness ==
  /\ plpc = "task"
  /\ plFails = {}
  /\ plOwner[1].dueDate = Instant(plnow + 120)
  /\ TriggerValues(planned) = <<plnow + 60>>

\* C20: the reminder two hours from now is created exactly for a task of
\* high priority without due date; it is then the only reminder, and a
\* task of another priority without due date gets none.
C20_HighPriorityReminder ==
  (plpc = "task" /\ plFails = {}) =>
    LET soon == {i \in 1..Len(planned) : planned[i].label = HighPriority}
        applies == plOwner[1].priority = "high" /\ plOwner[1].dueDate = Undefined
    IN /\ soon # {} <=> applies
       /\ applies => TriggerValues(planned) = <<plnow + 2 * 60>>
       /\ (plOwner[1].priority # "high" /\ plOwner[1].dueDate = Undefined) =>
            planned = <<>>

C20_Witness ==
  /\ plpc = "task"
  /\ plFails = {}
  /\ plOwner[1].priority = "high"
  /\ plOwner[1].dueDate = Undefined
  /\ Len(planned) = 1
  /\ planned[1].label = HighPriority
  /\ planned[1].triggerValue = plnow + 2 * 60


\* C21: every reminder created through createReminder, createTaskReminders,
\* createEventReminders or createLocationReminder has exactly one of taskId
\* and eventId set.
C21_ExactlyOneOwner ==
  \A i \in 1..Len(planned) :
    \/ planned[i].taskId # NoId /\ planned[i].eventId = NoId
    \/ planned[i].taskId = NoId /\ planned[i].eventId # NoId


(***************************************************************************)
(* Further claims about the scheduling suggestions (PrioSpec)              *)
(***************************************************************************)
\* An active task that qualifies for today: urgency critical, or urgency
\* high with less than 48 hours to its deadline
QualifiesForToday(task) ==
  /\ ~task.isCompleted
  /\ \/ task.urgencyLevel = "critical"
     \/ /\ task.urgencyLevel = "high"
        /\ task.timeToDeadline # NoDate
        /\ task.timeToDeadline < 48

C23_EncouragementWithoutCritical ==
  ppc = "suggested" =>
    ((\A i \in 1..Len(suggestion.todayTasks) :
        suggestion.todayTasks[i].urgencyLevel # "critical")
       => Includes(suggestion.suggestions, Encouragement))


\* C29: the advisories never hold both the encouragement and the overdue
\* warning: when the today bucket is empty no active task is critical.
C29_NeverEncouragementAndWarning ==
  ppc = "suggested" =>
    /\ ~(Includes(suggestion.suggestions, Encouragement)
         /\ Includes(suggestion.suggestions, OverdueWarning))
    /\ suggestion.todayTasks = <<>> =>
         \A i \in 1..Len(prioritized) :
           ~prioritized[i].isCompleted => prioritized[i].urgencyLevel # "critical"

\* The today bucket is empty although there are active tasks and a
\* completed task that was overdue
C29_Witness ==
  /\ ppc = "suggested"
  /\ suggestion.todayTasks = <<>>
  /\ Includes(suggestion.suggestions, Encouragement)
  /\ \E i \in 1..Len(prioritized) : ~prioritized[i].isCompleted
  /\ \E i \in 1..Len(prioritized) :
       /\ prioritized[i].isCompleted
       /\ prioritized[i].timeToDeadline < 0
       /\ prioritized[i].timeToDeadline # NoDate


\* C30: prioritizeTasks returns every task of its input exactly once and
\* nothing else, completed tasks included, in order of non-increasing
\* priority score, each with the score and urgency of the one reference time.
C30_SortedPermutation ==
  ppc \in {"prioritized", "suggested"} =>
    /\ Len(prioritized) = Len(ptasks)
    /\ \A i \in 1..Len(ptasks) :
         Cardinality({j \in 1..Len(prioritized) :
                        /\ prioritized[j].taskId = ptasks[i].taskId
                        /\ prioritized[j].isCompleted = ptasks[i].isCompleted
                        /\ prioritized[j].priority = ptasks[i].priority
                        /\ prioritized[j].dueDate = ptasks[i].dueDate
                        /\ prioritized[j].createdAt = ptasks[i].createdAt
                        /\ prioritized[j].priorityScore
                             = calculatePriorityScore(ptasks[i], pnow)
                        /\ prioritized[j].urgencyLevel
                             = determineUrgencyLevel(ptasks[i], pnow)}) = 1
    /\ \A j \in 1..Len(prioritized) - 1 :
         prioritized[j].priorityScore >= prioritized[j + 1].priorityScore

\* A list with a completed task whose order the sort changed
C30_Witness ==
  /\ ppc = "prioritized"
  /\ Len(prioritized) >= 3
  /\ \E j \in 1..Len(prioritized) : prioritized[j].isCompleted
  /\ prioritized[1].taskId # 1
  /\ prioritized[1].priorityScore > prioritized[Len(prioritized)].priorityScore


\* C24: a dueDate, startTime or endTime of the extractor that is not a
\* valid instant is left out of the parsed result, and a created task has
\* no due date or a valid one.
C24_InvalidDatesOmitted ==
  /\ parsed # <<>> =>
       /\ parsed[1].dueDate # Unparsable
       /\ parsed[1].startTime # Unparsable
       /\ parsed[1].endTime # Unparsable
  /\ (response # <<>> /\ response[1].result # <<>>) =>
       /\ response[1].result[1].dueDate # Unparsable
       /\ response[1].result[1].startTime # Unparsable
       /\ response[1].result[1].endTime # Unparsable
  /\ (created # <<>> /\ created[1].kind = "task") =>
       created[1].dueDate # InvalidDate


\* C25: the reminders of a task or event are created only after the item
\* was stored: none is created before addTask or addEvent returned the
\* item, and none at all when it returned null or threw.
C25_RemindersOnlyAfterPersisted ==
  plpc = "recorded" =>
    /\ plOwner[1].persisted # "saved" => planned = <<>>
    /\ \A i \in 1..Len(planned) :
         /\ plOwner[1].persisted = "saved"
         /\ planned[i].createdAt >= plOwner[1].persistedAt
         /\ planned[i].taskId = plOwner[1].id \/ planned[i].eventId = plOwner[1].id

\* addTask returned null for a high priority task without due date, which
\* would have got a reminder
C25_Witness ==
  /\ plpc = "recorded"
  /\ plOwner[1].kind = "task"
  /\ plOwner[1].persisted = "null"
  /\ plOwner[1].priority = "high"
  /\ plOwner[1].dueDate = Undefined
  /\ plFails = {}
  /\ planned = <<>>


(***************************************************************************)
(* Claims about Settings (SettingsSpec)                                    *)
(***************************************************************************)

\* C26: after handleClearAllData has completed the reminder service holds
\* no timer handle (activeReminders is empty), and no reminder scheduled
\* before the clear shows a notification after it.
C26_ClearCancelsEverything ==
  /\ setpc = "cleared" => \A id \in SvcIds : svcActive[id] = 0
  /\ lateShown = {}


(***************************************************************************)
(* Further claims about the reminder scheduler (Spec)                      *)
(***************************************************************************)

\* The live timers whose callback holds reminder rid
LiveTimersOf(rid) == {h \in timers : timerRem[h] = rid}

\* C27: at every moment a reminder id has at most one live timer, and each
\* live timer's handle is the one stored under its reminder's id in
\* activeReminders.
C27_OneTimerPerReminder ==
  /\ \A rid \in RemIds : Cardinality(LiveTimersOf(rid)) <= 1
  /\ \A h \in timers : activeReminders[timerRem[h]] = h


\* C28: triggerReminder dispatches a notification only if the storage mark
\* succeeded: a call whose StorageService.triggerReminder reported failure
\* ends without a notification for its reminder.
C28_NoDispatchAfterFailedMark ==
  [][\A c \in Callers :
       (/\ calls[c].pc = "dispatch"
        /\ ~calls[c].markOk
        /\ calls'[c] # calls[c])
         => log'[calls[c].rid] = log[calls[c].rid]]_vars

====
